---- MODULE Spec2Model ----
(***************************************************************************)
(* A model of orga's storage layer: the byte-oriented store, the typed     *)
(* Map over it (src/src/collections/map.rs), the EntryMap built on Map     *)
(* (src/src/collections/entry_map.rs), the BackingStore that selects the   *)
(* concrete store (src/src/merk/backingstore.rs), the verified query       *)
(* client (src/src/abci/tendermint_client.rs), the state machine step      *)
(* (src/src/state_machine.rs), IBC routing (src/src/ibc/router.rs,         *)
(* src/src/ibc/port.rs) and the query plugin (src/src/plugins/query.rs).   *)
(***************************************************************************)
EXTENDS Integers, Sequences, FiniteSets, TLC

VARIABLES
    coll,       \* what is under test: "Map", "EntryMap", "Query", "IbcRouter", ...
    store,      \* the backing store: a function from key bytes to value bytes
    pre,        \* what the collection held when the last operation was called
                \* (for all but EntryMap: the store as it was then)
    op,         \* the last operation called, with its arguments
    ret,        \* what that operation returned
    iter,       \* the live iterator over the store, if any
    yielded,    \* the items the live iterator has yielded so far, in order
    backing,    \* a BackingStore value: its variant and the mapping it holds
    built,      \* the mapping that BackingStore was constructed over
    pc,         \* where the query or call stands: "idle", "awaiting" or "done"
    res,        \* the response the remote endpoint gave to the query or call
    res_store,  \* the adapter's response-capture slot
    steps,      \* the steps the query call has performed, in order
    given,      \* the snapshot handed to the acceptance callback, if any
    slots,      \* the response-capture slots allocated so far, by reference
    calls,      \* the with_response calls: where each stands and what it holds
    oks,        \* how many step_flush calls have returned Ok so far
    plugin,     \* a QueryPlugin: the prefix of its store and its inner state
    children    \* the write buffer of the map inside an EntryMap: key bytes to
                \* Some(value bytes), or to None for a removal

bvars == <<backing, built>>

qvars == <<pc, res, res_store, steps, given>>

wvars == <<slots, calls>>

vars ==
    <<coll, store, pre, op, ret, iter, yielded, bvars, qvars, wvars, oks, plugin,
      children>>

(***************************************************************************)
(* Bounds of the model and constants of the program.                       *)
(***************************************************************************)
MaxEntries == 3

MaxKeyHi == 1

KeyBufLen == 256

(***************************************************************************)
(* Rust's Result, Option and unit.                                         *)
(***************************************************************************)
Unit == "()"

None == <<>>

Some(x) == <<x>>

Ok(x) == [ok |-> TRUE, val |-> x]

Err(e) == [ok |-> FALSE, err |-> e]

(***************************************************************************)
(* The codec.  A type is a record [kind, ws]: an unsigned integer of ws[1] *)
(* bytes ("uint"), a Vec of such integers ("vec"), or a tuple whose i-th   *)
(* field is an unsigned integer of ws[i] bytes ("tuple").  Integers are    *)
(* fixed-width big-endian; a Vec or a tuple is the concatenation of its    *)
(* elements' encodings.                                                    *)
(***************************************************************************)
UintTy(w) == [kind |-> "uint", ws |-> <<w>>]

VecTy(w) == [kind |-> "vec", ws |-> <<w>>]

TupleTy(ws) == [kind |-> "tuple", ws |-> ws]

\* Option<T>, and a struct with fields of any of these types; an Option value
\* is None or Some(x), a struct value is the sequence of its field values.
OptionTy(ty) == [kind |-> "option", of |-> ty]

StructTy(fields) == [kind |-> "struct", fields |-> fields]

RECURSIVE EncodeUint(_, _)
EncodeUint(n, w) ==
    IF w = 0 THEN <<>> ELSE EncodeUint(n \div 256, w - 1) \o <<n % 256>>

RECURSIVE EncodeFields(_, _, _)
EncodeFields(xs, ws, i) ==
    IF i > Len(xs) THEN <<>>
    ELSE EncodeUint(xs[i], ws[i]) \o EncodeFields(xs, ws, i + 1)

RECURSIVE Digit256(_, _)
Digit256(n, p) == IF p = 0 THEN n % 256 ELSE Digit256(n \div 256, p - 1)

\* The elements of a Vec one after the other, each in w bytes: byte j belongs
\* to element (j - 1) \div w + 1 and is its base-256 digit of weight
\* w - 1 - (j - 1) % w.
EncodeVecBytes(xs, w) ==
    [j \in 1..(Len(xs) * w) |->
        Digit256(xs[(j - 1) \div w + 1], w - 1 - ((j - 1) % w))]

\* The two longest keys of the model, and their encodings computed once.
Ones(n) == [i \in 1..n |-> 1]

LongVecs == {Ones(KeyBufLen \div 8), Ones(KeyBufLen \div 8 + 1)}

LongVecBytes == [xs \in LongVecs |-> EncodeVecBytes(xs, 8)]

EncodeVec(xs, w) ==
    IF w = 8 /\ xs \in LongVecs THEN LongVecBytes[xs] ELSE EncodeVecBytes(xs, w)

RECURSIVE Encode(_, _)
RECURSIVE EncodeStruct(_, _, _)
EncodeStruct(xs, fields, i) ==
    IF i > Len(fields) THEN <<>>
    ELSE Encode(fields[i], xs[i]) \o EncodeStruct(xs, fields, i + 1)

Encode(ty, x) ==
    IF ty.kind = "uint" THEN EncodeUint(x, ty.ws[1])
    ELSE IF ty.kind = "vec" THEN EncodeVec(x, ty.ws[1])
    ELSE IF ty.kind = "tuple" THEN EncodeFields(x, ty.ws, 1)
    ELSE IF ty.kind = "option"
    THEN IF x = None THEN <<0>> ELSE <<1>> \o Encode(ty.of, x[1])
    ELSE EncodeStruct(x, ty.fields, 1)

RECURSIVE DecodeUint(_)
DecodeUint(b) ==
    IF b = <<>> THEN 0
    ELSE DecodeUint(SubSeq(b, 1, Len(b) - 1)) * 256 + b[Len(b)]

RECURSIVE DecodeFields(_, _, _, _)
DecodeFields(b, ws, i, vec) ==
    LET w == ws[IF vec THEN 1 ELSE i] IN
    IF (vec /\ b = <<>>) \/ (~vec /\ i > Len(ws)) THEN Ok(<<>>)
    ELSE IF Len(b) < w THEN Err("Decode")
    ELSE LET rest == DecodeFields(SubSeq(b, w + 1, Len(b)), ws, i + 1, vec) IN
         IF rest.ok THEN Ok(<<DecodeUint(SubSeq(b, 1, w))>> \o rest.val)
         ELSE rest

\* Decoding reads a value from the front of the bytes: the value read and
\* the bytes left over.
RECURSIVE DecodeFrom(_, _)
RECURSIVE DecodeStruct(_, _, _)
DecodeStruct(b, fields, i) ==
    IF i > Len(fields) THEN Ok([val |-> <<>>, rest |-> b])
    ELSE LET first == DecodeFrom(fields[i], b) IN
         IF ~first.ok THEN first
         ELSE LET others == DecodeStruct(first.val.rest, fields, i + 1) IN
              IF ~others.ok THEN others
              ELSE Ok([val |-> <<first.val.val>> \o others.val.val,
                       rest |-> others.val.rest])

DecodeFrom(ty, b) ==
    IF ty.kind = "uint"
    THEN IF Len(b) < ty.ws[1] THEN Err("Decode")
         ELSE Ok([val |-> DecodeUint(SubSeq(b, 1, ty.ws[1])),
                  rest |-> SubSeq(b, ty.ws[1] + 1, Len(b))])
    ELSE IF ty.kind = "option"
    THEN IF b = <<>> THEN Err("Decode")
         ELSE IF b[1] = 0 THEN Ok([val |-> None, rest |-> Tail(b)])
         ELSE IF b[1] = 1
         THEN LET inner == DecodeFrom(ty.of, Tail(b)) IN
              IF ~inner.ok THEN inner
              ELSE Ok([val |-> Some(inner.val.val), rest |-> inner.val.rest])
         ELSE Err("Decode")
    ELSE DecodeStruct(b, ty.fields, 1)

Decode(ty, b) ==
    IF ty.kind = "uint"
    THEN IF Len(b) < ty.ws[1] THEN Err("Decode")
         ELSE Ok(DecodeUint(SubSeq(b, 1, ty.ws[1])))
    ELSE IF ty.kind \in {"vec", "tuple"}
    THEN DecodeFields(b, ty.ws, 1, ty.kind = "vec")
    ELSE LET d == DecodeFrom(ty, b) IN IF d.ok THEN Ok(d.val.val) ELSE d

EncodingLength(ty, x) ==
    IF ty.kind = "uint" THEN ty.ws[1]
    ELSE IF ty.kind = "vec" THEN Len(x) * ty.ws[1]
    ELSE IF ty.kind = "tuple" THEN Len(EncodeFields(x, ty.ws, 1))
    ELSE Len(Encode(ty, x))

(***************************************************************************)
(* Byte-lexicographic order, the order of the store.                       *)
(***************************************************************************)
Min(a, b) == IF a < b THEN a ELSE b

BytesLess(a, b) ==
    LET n == Min(Len(a), Len(b))
        diff == {i \in 1..n : a[i] # b[i]}
    IN  IF diff = {} THEN Len(a) < Len(b)
        ELSE LET d == CHOOSE i \in diff : \A j \in diff : i <= j IN a[d] < b[d]

(***************************************************************************)
(* The in-memory store (MapStore): an ordered map from bytes to bytes.     *)
(***************************************************************************)
EmptyStore == [k \in {} |-> <<>>]

StoreGet(s, k) == IF k \in DOMAIN s THEN Some(s[k]) ELSE None

StorePut(s, k, v) == [x \in DOMAIN s \cup {k} |-> IF x = k THEN v ELSE s[x]]

StoreDelete(s, k) == [x \in DOMAIN s \ {k} |-> s[x]]

LeastKey(ks) == CHOOSE k \in ks : \A j \in ks : j = k \/ BytesLess(k, j)

(***************************************************************************)
(* Range bounds over key bytes and the store's ordered scan.  A scan keeps *)
(* a lower and an upper bound; each step hands out the least stored key    *)
(* within the bounds and moves the lower bound past it.                    *)
(***************************************************************************)
Unbounded == [kind |-> "Unbounded", key |-> <<>>]

Included(k) == [kind |-> "Included", key |-> k]

Excluded(k) == [kind |-> "Excluded", key |-> k]

AboveLower(k, lo) ==
    \/ lo.kind = "Unbounded"
    \/ lo.kind = "Included" /\ (k = lo.key \/ BytesLess(lo.key, k))
    \/ lo.kind = "Excluded" /\ BytesLess(lo.key, k)

BelowUpper(k, hi) ==
    \/ hi.kind = "Unbounded"
    \/ hi.kind = "Included" /\ (k = hi.key \/ BytesLess(k, hi.key))
    \/ hi.kind = "Excluded" /\ BytesLess(k, hi.key)

NoIter == [live |-> FALSE, done |-> FALSE, lower |-> Unbounded, upper |-> Unbounded]

StoreRange(lo, hi) == [live |-> TRUE, done |-> FALSE, lower |-> lo, upper |-> hi]

StoreIterFrom(start_bytes) == StoreRange(Included(start_bytes), Unbounded)

StoreIter == StoreRange(Unbounded, Unbounded)

StoreIterNext(s, it) ==
    LET within == {k \in DOMAIN s : AboveLower(k, it.lower) /\ BelowUpper(k, it.upper)}
    IN  IF within = {} THEN None
        ELSE LET k == LeastKey(within) IN Some(<<k, s[k]>>)

(***************************************************************************)
(* Map<S, K, V>.  Each operation yields the store it leaves and its return *)
(* value.                                                                  *)
(***************************************************************************)
Zeros(n) == [i \in 1..n |-> 0]

\* The key written into a zeroed 256-byte array: writing past the end of the
\* array is an error of the write, so nothing is ever written outside it.
\* Mutant of encode_key_array: the length returned is that of the array.
encode_key_array_whole(K, key) ==
    LET e == Encode(K, key) IN
    IF Len(e) > KeyBufLen THEN Err("Encode")
    ELSE Ok([bytes |-> e \o Zeros(KeyBufLen - Len(e)), len |-> KeyBufLen])

encode_key_array(K, key) ==
    LET e == Encode(K, key) IN
    IF Len(e) > KeyBufLen THEN Err("Encode")
    ELSE Ok([bytes |-> e \o Zeros(KeyBufLen - Len(e)),
             len |-> EncodingLength(K, key)])

\* Mutant of Map_insert: writes only when the key is not stored yet.
Map_insert_if_absent(s, K, V, key, value) ==
    IF Encode(K, key) \in DOMAIN s THEN [store |-> s, ret |-> Ok(Unit)]
    ELSE [store |-> StorePut(s, Encode(K, key), Encode(V, value)), ret |-> Ok(Unit)]

Map_insert(s, K, V, key, value) ==
    LET key_bytes == Encode(K, key)
        value_bytes == Encode(V, value)
    IN  [store |-> StorePut(s, key_bytes, value_bytes), ret |-> Ok(Unit)]

\* Mutant of Map_delete: every entry whose key starts with the key's bytes
\* is deleted.
Map_delete_prefixed(s, K, key) ==
    LET r == encode_key_array(K, key) IN
    IF ~r.ok THEN [store |-> s, ret |-> r]
    ELSE LET key_bytes == SubSeq(r.val.bytes, 1, r.val.len) IN
         [store |-> [b \in {x \in DOMAIN s :
                               ~(Len(key_bytes) <= Len(x)
                                   /\ SubSeq(x, 1, Len(key_bytes)) = key_bytes)}
                        |-> s[b]],
          ret |-> Ok(Unit)]

\* Mutant of Map_delete: deletes under the whole 256-byte array instead of
\* its first key_length bytes.
Map_delete_whole_array(s, K, key) ==
    LET r == encode_key_array(K, key) IN
    IF ~r.ok THEN [store |-> s, ret |-> r]
    ELSE [store |-> StoreDelete(s, r.val.bytes), ret |-> Ok(Unit)]

\* Mutant of Map_delete: a key that is not stored is an error.
Map_delete_missing_is_error(s, K, key) ==
    LET r == encode_key_array(K, key) IN
    IF ~r.ok THEN [store |-> s, ret |-> r]
    ELSE IF SubSeq(r.val.bytes, 1, r.val.len) \notin DOMAIN s
         THEN [store |-> s, ret |-> Err("Store")]
         ELSE [store |-> StoreDelete(s, SubSeq(r.val.bytes, 1, r.val.len)),
               ret |-> Ok(Unit)]

Map_delete(s, K, key) ==
    LET r == encode_key_array(K, key) IN
    IF ~r.ok THEN [store |-> s, ret |-> r]
    ELSE [store |-> StoreDelete(s, SubSeq(r.val.bytes, 1, r.val.len)),
          ret |-> Ok(Unit)]

Map_get(s, K, V, key) ==
    LET r == encode_key_array(K, key) IN
    IF ~r.ok THEN r
    ELSE LET found == StoreGet(s, SubSeq(r.val.bytes, 1, r.val.len)) IN
         IF found = None THEN Ok(None)
         ELSE LET d == Decode(V, found[1]) IN
              IF d.ok THEN Ok(Some(d.val)) ELSE d

\* Mutant of Map_iter_from: the scan starts after start, not at it.
Map_iter_from_after(K, start) ==
    Ok(StoreRange(Excluded(Encode(K, start)), Unbounded))

Map_iter_from(K, start) ==
    LET start_bytes == Encode(K, start) IN Ok(StoreIterFrom(start_bytes))

Map_iter == StoreIter

\* Mutant of Iter_next: hands out the next pair without moving past it.
Iter_next_peek(s, K, V, it) ==
    LET n == StoreIterNext(s, it) IN
    IF n = None THEN [iter |-> [it EXCEPT !.done = TRUE], item |-> None, panic |-> FALSE]
    ELSE [iter |-> it,
          item |-> Some(<<Decode(K, n[1][1]).val, Decode(V, n[1][2]).val>>),
          panic |-> FALSE]

\* Mutant of Iter_next: a pair that does not decode is passed over and the
\* iteration goes on behind it.
Iter_next_skip(s, K, V, it) ==
    LET n == StoreIterNext(s, it) IN
    IF n = None THEN [iter |-> [it EXCEPT !.done = TRUE], item |-> None, panic |-> FALSE]
    ELSE LET k == Decode(K, n[1][1])
             v == Decode(V, n[1][2])
             behind == [it EXCEPT !.lower = Excluded(n[1][1])]
             after == StoreIterNext(s, behind)
         IN  IF k.ok /\ v.ok
             THEN [iter |-> behind, item |-> Some(<<k.val, v.val>>), panic |-> FALSE]
             ELSE IF after # None /\ Decode(K, after[1][1]).ok
                                  /\ Decode(V, after[1][2]).ok
             THEN [iter |-> [it EXCEPT !.lower = Excluded(after[1][1])],
                   item |-> Some(<<Decode(K, after[1][1]).val,
                                   Decode(V, after[1][2]).val>>),
                   panic |-> FALSE]
             ELSE [iter |-> NoIter, item |-> None, panic |-> TRUE]

\* Iter::next: the next pair of the scan, decoded; a pair that does not decode
\* is a panic (unwrap), which ends the iteration.
Iter_next(s, K, V, it) ==
    LET n == StoreIterNext(s, it) IN
    IF n = None THEN [iter |-> [it EXCEPT !.done = TRUE], item |-> None, panic |-> FALSE]
    ELSE LET k == Decode(K, n[1][1])
             v == Decode(V, n[1][2])
         IN  IF k.ok /\ v.ok
             THEN [iter |-> [it EXCEPT !.lower = Excluded(n[1][1])],
                   item |-> Some(<<k.val, v.val>>), panic |-> FALSE]
             ELSE [iter |-> NoIter, item |-> None, panic |-> TRUE]

(***************************************************************************)
(* The later Map<K, V, S> that EntryMap wraps.  It keeps its writes in a   *)
(* buffer of its own: insert puts the pair there, remove puts a removal    *)
(* mark there, and flush applies the buffer to the store.  The map reads   *)
(* the buffer before the store.  A buffer maps key bytes to Some(value     *)
(* bytes) or to None, the removal mark.                                    *)
(***************************************************************************)
NoChildren == EmptyStore

\* What the map holds: the pairs of the buffer, and the entries of the store
\* that the buffer says nothing about.
MapView(s, ch) ==
    [k \in {x \in DOMAIN s : x \notin DOMAIN ch} \cup {x \in DOMAIN ch : ch[x] # None}
        |-> IF k \in DOMAIN ch THEN ch[k][1] ELSE s[k]]

LaterMap_insert(ch, K, V, key, value) ==
    [children |-> StorePut(ch, Encode(K, key), Some(Encode(V, value))),
     ret |-> Ok(Unit)]

LaterMap_remove(ch, K, key) ==
    [children |-> StorePut(ch, Encode(K, key), None), ret |-> Ok(Unit)]

LaterMap_contains_key(s, ch, K, key) == Ok(Encode(K, key) \in DOMAIN MapView(s, ch))

LaterMap_get(s, ch, K, V, key) ==
    LET found == StoreGet(MapView(s, ch), Encode(K, key)) IN
    IF found = None THEN Ok(None)
    ELSE LET d == Decode(V, found[1]) IN
         IF d.ok THEN Ok(Some(d.val)) ELSE d

\* flush: every pair of the buffer is put into the store, every key with a
\* removal mark is deleted from it, and the buffer is empty afterwards.
LaterMap_flush(s, ch) ==
    [store |-> MapView(s, ch), children |-> NoChildren, ret |-> Ok(Unit)]

EncodeBound(K, b) ==
    IF b.kind = "Unbounded" THEN Unbounded ELSE [b EXCEPT !.key = Encode(K, b.key)]

LaterMap_iter == Ok(StoreIter)

LaterMap_range(K, lo, hi) == Ok(StoreRange(EncodeBound(K, lo), EncodeBound(K, hi)))

\* next of the later Map's iterator: the next pair the map holds, decoded and
\* handed out as an Ok item; a pair that does not decode is a fatal fault,
\* which ends the iteration.  Its items are Results for the sake of the
\* store's own read errors; the stores here are mappings in memory, whose
\* reads do not fail, so this iterator hands out no Err item.
LaterMap_next(s, ch, K, V, it) ==
    LET n == StoreIterNext(MapView(s, ch), it) IN
    IF n = None THEN [iter |-> [it EXCEPT !.done = TRUE], item |-> None, panic |-> FALSE]
    ELSE LET k == Decode(K, n[1][1])
             v == Decode(V, n[1][2])
         IN  IF k.ok /\ v.ok
             THEN [iter |-> [it EXCEPT !.lower = Excluded(n[1][1])],
                   item |-> Some(Ok(<<k.val, v.val>>)), panic |-> FALSE]
             ELSE [iter |-> NoIter, item |-> None, panic |-> TRUE]

(***************************************************************************)
(* The Entry split.  A record type T lists, in declaration order, which of *)
(* its fields are #[key] fields (T.keys) and the width of each field       *)
(* (T.ws); a record is the sequence of its fields' values.                 *)
(***************************************************************************)
RECURSIVE Pick(_, _, _, _)
Pick(xs, marks, flag, i) ==
    IF i > Len(xs) THEN <<>>
    ELSE (IF marks[i] = flag THEN <<xs[i]>> ELSE <<>>) \o Pick(xs, marks, flag, i + 1)

KeyTy(T) == TupleTy(Pick(T.ws, T.keys, TRUE, 1))

ValueTy(T) == TupleTy(Pick(T.ws, T.keys, FALSE, 1))

into_entry(T, t) == <<Pick(t, T.keys, TRUE, 1), Pick(t, T.keys, FALSE, 1)>>

from_entry(T, e) ==
    [i \in 1..Len(T.keys) |->
        LET nth == Cardinality({j \in 1..i : T.keys[j] = T.keys[i]}) IN
        IF T.keys[i] THEN e[1][nth] ELSE e[2][nth]]

(***************************************************************************)
(* EntryMap<T>: a later Map from the key fields to the other fields.  Each *)
(* writing operation yields the buffer it leaves and its return value.     *)
(***************************************************************************)
\* Mutant of EntryMap_insert: the key fields are stored last field first.
Reverse(xs) == [i \in 1..Len(xs) |-> xs[Len(xs) + 1 - i]]

EntryMap_insert_key_reversed(ch, T, entry) ==
    LET e == into_entry(T, entry) IN
    LaterMap_insert(ch, TupleTy(Reverse(KeyTy(T).ws)), ValueTy(T), Reverse(e[1]), e[2])

EntryMap_insert(ch, T, entry) ==
    LET e == into_entry(T, entry) IN
    LaterMap_insert(ch, KeyTy(T), ValueTy(T), e[1], e[2])

\* Mutant of EntryMap_contains_entry_key: the value held must match too.
EntryMap_contains_entry_key_and_value(s, ch, T, entry) ==
    LET e == into_entry(T, entry) IN
    Ok(StoreGet(MapView(s, ch), Encode(KeyTy(T), e[1])) = Some(Encode(ValueTy(T), e[2])))

EntryMap_contains_entry_key(s, ch, T, entry) ==
    LET e == into_entry(T, entry) IN LaterMap_contains_key(s, ch, KeyTy(T), e[1])

\* Mutant of EntryMap_delete: removes the record only when the value held
\* equals the value portion of the argument.
EntryMap_delete_if_equal(s, ch, T, entry) ==
    LET e == into_entry(T, entry) IN
    IF StoreGet(MapView(s, ch), Encode(KeyTy(T), e[1])) = Some(Encode(ValueTy(T), e[2]))
    THEN [children |-> LaterMap_remove(ch, KeyTy(T), e[1]).children, ret |-> Ok(Unit)]
    ELSE [children |-> ch, ret |-> Ok(Unit)]

EntryMap_delete(s, ch, T, entry) ==
    LET e == into_entry(T, entry)
        r == LaterMap_remove(ch, KeyTy(T), e[1])
    IN  IF r.ret.ok THEN [children |-> r.children, ret |-> Ok(Unit)] ELSE r

\* Mutant of EntryMap_contains: the value held is not compared.
EntryMap_contains_key_only(s, ch, T, entry) ==
    LET e == into_entry(T, entry) IN LaterMap_contains_key(s, ch, KeyTy(T), e[1])

EntryMap_contains(s, ch, T, entry) ==
    LET e == into_entry(T, entry)
        c == LaterMap_contains_key(s, ch, KeyTy(T), e[1])
        g == LaterMap_get(s, ch, KeyTy(T), ValueTy(T), e[1])
    IN  IF ~c.ok THEN c
        ELSE IF c.val
             THEN IF ~g.ok THEN g
                  ELSE IF g.val = None THEN Ok(FALSE)
                  ELSE Ok(g.val[1] = e[2])
             ELSE Ok(FALSE)

EntryMap_flush(s, ch) == LaterMap_flush(s, ch)

\* EntryMap::with_store(store): a map over the store, with an empty buffer.
EntryMap_with_store(s) == Ok([children |-> NoChildren])

EntryMap_iter == LaterMap_iter

\* Mutant of EntryMap_range: the bounds are dropped (the scan of iter()).
EntryMap_range_all(T, lo, hi) == LaterMap_iter

EntryMap_range(T, lo, hi) == LaterMap_range(KeyTy(T), lo, hi)

\* Iter::next of EntryMap: an Ok pair of the map iterator is put back
\* together into a record, an Err item is handed on as it is, and a fatal
\* fault of the map iterator passes through: next adds no recovery and no
\* skipping of its own.
EntryIter_next(s, ch, T, it) ==
    LET r == LaterMap_next(s, ch, KeyTy(T), ValueTy(T), it) IN
    IF r.panic \/ r.item = None THEN r
    ELSE IF ~r.item[1].ok THEN r
    ELSE [r EXCEPT !.item = Some(Ok(from_entry(T, r.item[1].val)))]

(***************************************************************************)
(* Errors with a message: the variant of Error and its text.               *)
(***************************************************************************)
Error(kind, msg) == [kind |-> kind, msg |-> msg]

\* A call that aborts instead of returning.
Panic == [ok |-> FALSE, panic |-> TRUE]

(***************************************************************************)
(* The stores behind a BackingStore.  A mutable store follows the Store    *)
(* contract over the mapping it holds; get_next is the strict-successor    *)
(* lookup.  NullStore is always empty and cannot be written.  ProofStore   *)
(* wraps a verified mapping (ProofMap), which is never mutated.            *)
(***************************************************************************)
StoreGetNext(s, key) == StoreIterNext(s, StoreRange(Excluded(key), Unbounded))

NullStore_get(key) == Ok(None)

NullStore_get_next(key) == Ok(None)

NullStore_put(key, value) == Panic

NullStore_delete(key) == Panic

ProofMap_get(map, key) == Ok(StoreGet(map, key))

ProofMap_range(map, lo, hi) == StoreRange(lo, hi)

ProofStore_get(map, key) ==
    LET maybe_value == ProofMap_get(map, key) IN
    IF maybe_value.ok THEN Ok(maybe_value.val) ELSE maybe_value

\* Mutant of ProofStore_get_next: the lower bound is included.
ProofStore_get_next_included(map, key) ==
    Ok(StoreIterNext(map, ProofMap_range(map, Included(key), Unbounded)))

ProofStore_get_next(map, key) ==
    LET iter_ == ProofMap_range(map, Excluded(key), Unbounded)
        item == StoreIterNext(map, iter_)
    IN  Ok(item)

(***************************************************************************)
(* BackingStore: a variant and the mapping its store holds.  Every         *)
(* operation yields the BackingStore it leaves and what it returned        *)
(* (Panic when the call aborts).                                           *)
(***************************************************************************)
Variants == {"WrappedMerk", "ProofBuilder", "Merk", "MapStore", "ProofMap", "Null"}

Mutable == {"WrappedMerk", "Merk", "MapStore"}

BackingStore_default == [variant |-> "Null", data |-> EmptyStore]

BackingStore_get(b, key) ==
    IF b.variant = "ProofMap" THEN ProofStore_get(b.data, key)
    ELSE IF b.variant = "Null" THEN NullStore_get(key)
    ELSE Ok(StoreGet(b.data, key))

BackingStore_get_next(b, key) ==
    IF b.variant = "ProofMap" THEN ProofStore_get_next(b.data, key)
    ELSE IF b.variant = "Null" THEN NullStore_get_next(key)
    ELSE Ok(StoreGetNext(b.data, key))

\* Mutant of BackingStore_put: a put on the ProofMap variant writes through.
BackingStore_put_proof_writes(b, key, value) ==
    IF b.variant \in Mutable \cup {"ProofMap"}
    THEN [backing |-> [b EXCEPT !.data = StorePut(b.data, key, value)], ret |-> Ok(Unit)]
    ELSE [backing |-> b, ret |-> Panic]

BackingStore_put(b, key, value) ==
    IF b.variant \in Mutable
    THEN [backing |-> [b EXCEPT !.data = StorePut(b.data, key, value)], ret |-> Ok(Unit)]
    ELSE IF b.variant = "ProofBuilder" THEN [backing |-> b, ret |-> Panic]
    ELSE IF b.variant = "ProofMap" THEN [backing |-> b, ret |-> Panic]
    ELSE [backing |-> b, ret |-> NullStore_put(key, value)]

\* Mutant of BackingStore_delete: a delete on the Null variant is a no-op.
BackingStore_delete_null_noop(b, key) ==
    IF b.variant \in Mutable
    THEN [backing |-> [b EXCEPT !.data = StoreDelete(b.data, key)], ret |-> Ok(Unit)]
    ELSE IF b.variant = "Null" THEN [backing |-> b, ret |-> Ok(Unit)]
    ELSE [backing |-> b, ret |-> Panic]

BackingStore_delete(b, key) ==
    IF b.variant \in Mutable
    THEN [backing |-> [b EXCEPT !.data = StoreDelete(b.data, key)], ret |-> Ok(Unit)]
    ELSE IF b.variant = "ProofBuilder" THEN [backing |-> b, ret |-> Panic]
    ELSE IF b.variant = "ProofMap" THEN [backing |-> b, ret |-> Panic]
    ELSE [backing |-> b, ret |-> NullStore_delete(key)]

into_proof_builder(b) ==
    IF b.variant = "ProofBuilder" THEN Ok(b.data)
    ELSE Err(Error("Downcast", "Failed to downcast backing store to proof builder"))

into_wrapped_merk(b) ==
    IF b.variant = "WrappedMerk" THEN Ok(b.data)
    ELSE Err(Error("Downcast", "Failed to downcast backing store to wrapped merk"))

\* Mutant of into_map_store: any store that can be written is handed out.
into_map_store_any_mutable(b) ==
    IF b.variant \in Mutable THEN Ok(b.data)
    ELSE Err(Error("Downcast", "Failed to downcast backing store to map store"))

into_map_store(b) ==
    IF b.variant = "MapStore" THEN Ok(b.data)
    ELSE Err(Error("Downcast", "Failed to downcast backing store to map store"))

(***************************************************************************)
(* The proof oracle, merk::proofs::query::verify(proof_bytes, root_hash).  *)
(* A proof lists the entries of a mapping, each as key length, key bytes,  *)
(* value length, value bytes; the root hash is a 32-byte digest of the     *)
(* proof bytes.  verify rejects bytes that do not parse and bytes whose    *)
(* digest is not the root hash, and otherwise gives the mapping.           *)
(***************************************************************************)
HashLen == 32

RECURSIVE SumBytes(_, _)
SumBytes(b, i) == IF i > Len(b) THEN 0 ELSE (i * b[i] + SumBytes(b, i + 1)) % 256

Hash(b) == LET h == SumBytes(b, 1) IN [i \in 1..HashLen |-> (h + i) % 256]

RECURSIVE ParseProof(_)
ParseProof(b) ==
    IF b = <<>> THEN Ok(EmptyStore)
    ELSE IF Len(b) < 1 + b[1] + 1 THEN Err([merk |-> "proof does not parse"])
    ELSE LET klen == b[1]
             key == SubSeq(b, 2, 1 + klen)
             vlen == b[2 + klen]
         IN  IF Len(b) < 2 + klen + vlen THEN Err([merk |-> "proof does not parse"])
             ELSE LET value == SubSeq(b, 3 + klen, 2 + klen + vlen)
                      rest == ParseProof(SubSeq(b, 3 + klen + vlen, Len(b)))
                  IN  IF rest.ok THEN Ok(StorePut(rest.val, key, value)) ELSE rest

verify(proof_bytes, root_hash) ==
    LET parsed == ParseProof(proof_bytes) IN
    IF ~parsed.ok THEN parsed
    ELSE IF Hash(proof_bytes) # root_hash THEN Err([merk |-> "root hash mismatch"])
    ELSE parsed

\* Error::from(merk::Error): the Merk variant around the library's error.
From_merk(e) == Error("Merk", e.merk)

(***************************************************************************)
(* The query call of the Tendermint adapter.  The application state T is   *)
(* a u16 snapshot: load decodes it from the root value.  The store read by *)
(* the call is the proof store over the verified mapping.                  *)
(***************************************************************************)
StateTy == UintTy(2)

ABCIPrefixedProofStore_get(map, key) == ProofStore_get(map, key)

State_load(store_, bytes) ==
    LET d == Decode(StateTy, bytes) IN
    IF d.ok THEN Ok([value |-> d.val, store |-> store_])
    ELSE Err(Error("Ed", "unexpected end of input"))

\* state.attach(store): the snapshot reads from the store it is attached to.
State_attach(state, store_, attach_result) ==
    IF attach_result.ok THEN Ok([state EXCEPT !.store = store_]) ELSE attach_result

\* A read performed through the snapshot.
State_get(state, key) == ABCIPrefixedProofStore_get(state.store, key)

\* &value[0..n]: the first n bytes, or a panic when there are fewer.
SliceTo(value, n) == IF Len(value) < n THEN Panic ELSE Ok(SubSeq(value, 1, n))

\* <[u8; 32]>::try_from(&[u8]): an error unless the slice has 32 bytes.
TryIntoArray(slice, n) ==
    IF Len(slice) = n THEN Ok(slice) ELSE Err("TryFromSliceError")

\* The response-capture slot after a response was received.
Capture(slot, response) == IF slot = None THEN None ELSE Some(Some(response))

Finished(ret_, steps_, given_) == [ret |-> ret_, steps |-> steps_, given |-> given_]

\* The steps of query after the response has arrived, last step first; each
\* takes the steps performed so far and ends the call or goes on to the next.
\* Mutant of query_check: an error of the callback is wrapped in a query
\* error.
query_check_wrapped(state, check_result, done) ==
    Finished(IF check_result.ok THEN check_result
             ELSE Err(Error("Query", check_result.err.msg)),
             Append(done, "check"), Some(state))

query_check(state, check_result, done) ==
    Finished(check_result, Append(done, "check"), Some(state))

\* Mutant of query_attach: the snapshot is attached to an empty store.
query_attach_elsewhere(map, state, attach_result, check_result, done) ==
    LET attached == State_attach(state, EmptyStore, attach_result) IN
    IF ~attached.ok THEN Finished(attached, Append(done, "attach"), None)
    ELSE query_check(attached.val, check_result, Append(done, "attach"))

query_attach(map, state, attach_result, check_result, done) ==
    LET attached == State_attach(state, map, attach_result) IN
    IF ~attached.ok THEN Finished(attached, Append(done, "attach"), None)
    ELSE query_check(attached.val, check_result, Append(done, "attach"))

query_load(map, root_value, attach_result, check_result, done) ==
    LET state == State_load(map, root_value) IN
    IF ~state.ok THEN Finished(state, Append(done, "load"), None)
    ELSE query_attach(map, state.val, attach_result, check_result,
                      Append(done, "load"))

\* Mutant of query_lookup: a missing root value is read as empty bytes.
query_lookup_default_root(map, attach_result, check_result, done) ==
    LET got == ABCIPrefixedProofStore_get(map, <<>>) IN
    query_load(map, IF got.val = None THEN <<0, 0>> ELSE got.val[1],
               attach_result, check_result, Append(done, "lookup"))

query_lookup(map, attach_result, check_result, done) ==
    LET got == ABCIPrefixedProofStore_get(map, <<>>) IN
    IF ~got.ok THEN Finished(got, Append(done, "lookup"), None)
    ELSE IF got.val = None
         THEN Finished(Err(Error("ABCI", "Missing root value")),
                       Append(done, "lookup"), None)
         ELSE query_load(map, got.val[1], attach_result, check_result,
                         Append(done, "lookup"))

\* Mutant of query_verify: a proof that parses is used although verify
\* rejected it.
query_verify_unchecked(value, root_hash, attach_result, check_result, done) ==
    LET proof_bytes == SubSeq(value, HashLen + 1, Len(value))
        map == ParseProof(proof_bytes)
    IN  IF ~map.ok THEN Finished(Err(From_merk(map.err)), Append(done, "verify"), None)
        ELSE query_lookup(map.val, attach_result, check_result, Append(done, "verify"))

query_verify(value, root_hash, attach_result, check_result, done) ==
    LET proof_bytes == SubSeq(value, HashLen + 1, Len(value))
        map == verify(proof_bytes, root_hash)
    IN  IF ~map.ok THEN Finished(Err(From_merk(map.err)), Append(done, "verify"), None)
        ELSE query_lookup(map.val, attach_result, check_result, Append(done, "verify"))

query_root(value, attach_result, check_result, done) ==
    LET slice == SliceTo(value, HashLen) IN
    IF ~slice.ok THEN Finished(Panic, Append(done, "root"), None)
    ELSE LET root_hash == TryIntoArray(slice.val, HashLen) IN
         IF ~root_hash.ok
         THEN Finished(Err(Error("Tendermint", "Cannot convert result to fixed size array")),
                       Append(done, "root"), None)
         ELSE query_verify(value, root_hash.val, attach_result, check_result,
                           Append(done, "root"))

\* Mutant of query_status: the error message leaves out the log.
query_status_without_log(response, attach_result, check_result, done) ==
    IF response.code # 0
    THEN Finished(Err(Error("Query", "code " \o ToString(response.code))),
                  Append(done, "status"), None)
    ELSE query_root(response.value, attach_result, check_result, Append(done, "status"))

query_status(response, attach_result, check_result, done) ==
    IF response.code # 0
    THEN LET msg == "code " \o ToString(response.code) \o ": " \o response.log
         IN  Finished(Err(Error("Query", msg)), Append(done, "status"), None)
    ELSE query_root(response.value, attach_result, check_result, Append(done, "status"))

\* AsyncCall::call from the point where the transaction has been broadcast:
\* the outcome of the broadcast, then the admission and delivery codes of the
\* commit response.
TendermintAdapter_call_delivery_first(tx_res) ==
    IF ~tx_res.ok THEN tx_res
    ELSE IF tx_res.val.deliver_tx.code # 0
    THEN Err(Error("ABCI", "DeliverTx failed: " \o tx_res.val.deliver_tx.log))
    ELSE IF tx_res.val.check_tx.code # 0
    THEN Err(Error("ABCI", "CheckTx failed: " \o tx_res.val.check_tx.log))
    ELSE Ok(Unit)

TendermintAdapter_call(tx_res) ==
    IF ~tx_res.ok THEN tx_res
    ELSE IF tx_res.val.check_tx.code # 0
    THEN Err(Error("ABCI", "CheckTx failed: " \o tx_res.val.check_tx.log))
    ELSE IF tx_res.val.deliver_tx.code # 0
    THEN Err(Error("ABCI", "DeliverTx failed: " \o tx_res.val.deliver_tx.log))
    ELSE Ok(Unit)

\* Mutant of NewSlot: every call refers to one slot, made by the first call.
NewSlot_shared(slots_) ==
    IF slots_ = <<>> THEN [slots |-> <<None>>, ref |-> 1]
    ELSE [slots |-> slots_, ref |-> 1]

\* Arc::new(Mutex::new(Cell::new(None))): a new empty slot and a reference
\* to it.
NewSlot(slots_) == [slots |-> Append(slots_, None), ref |-> Len(slots_) + 1]

\* The capture step of query on an adapter that has a slot: the lock is
\* acquired and the response replaces the slot's content; when the lock cannot
\* be acquired, query returns the Poison error and the slot is left alone.
query_capture(slot, locked, response) ==
    IF ~locked.ok THEN [slot |-> slot, ret |-> Err(Error("Poison", locked.err))]
    ELSE [slot |-> Capture(Some(slot), response)[1], ret |-> Ok(Unit)]

\* query from the end of the request to the release of the slot's lock: a
\* request that failed ends the call; otherwise the response is captured when
\* the adapter has a slot, and a lock that cannot be acquired ends the call
\* with the slot as it was.  end is None when the call goes on to the status
\* check.
\* Mutant of query_response: a request that failed is sent again.
query_response_resend(slot, sent, locked) ==
    IF ~sent.ok THEN [slot |-> slot, end |-> Some(Finished(sent, <<"issue", "issue">>, None))]
    ELSE IF slot = None THEN [slot |-> None, end |-> None]
    ELSE LET captured == query_capture(slot[1], locked, sent.val) IN
         [slot |-> Some(captured.slot),
          end |-> IF captured.ret.ok THEN None
                  ELSE Some(Finished(captured.ret, <<"issue">>, None))]

query_response(slot, sent, locked) ==
    IF ~sent.ok THEN [slot |-> slot, end |-> Some(Finished(sent, <<"issue">>, None))]
    ELSE IF slot = None THEN [slot |-> None, end |-> None]
    ELSE LET captured == query_capture(slot[1], locked, sent.val) IN
         [slot |-> Some(captured.slot),
          end |-> IF captured.ret.ok THEN None
                  ELSE Some(Finished(captured.ret, <<"issue">>, None))]

\* The end of with_response, once the closure's future has completed: an
\* error of the closure is returned at once; otherwise the slot's content is
\* taken and paired with the closure's result.
\* Mutant of with_response_end: a lock that cannot be acquired is ignored and
\* the slot is read all the same.
\* Mutant of with_response_end: a closure that returned Ok with nothing in
\* the slot is given an empty response instead of the no-query error.
with_response_end_empty_response(slot, locked, query_res) ==
    IF ~query_res.ok THEN [slot |-> slot, ret |-> query_res]
    ELSE IF ~locked.ok THEN [slot |-> slot, ret |-> Err(Error("Poison", locked.err))]
    ELSE IF slot = None
    THEN [slot |-> None,
          ret |-> Ok(<<query_res.val, [code |-> 0, log |-> "", value |-> <<>>]>>)]
    ELSE [slot |-> None, ret |-> Ok(<<query_res.val, slot[1]>>)]

with_response_end_ignore_poison(slot, locked, query_res) ==
    IF ~query_res.ok THEN [slot |-> slot, ret |-> query_res]
    ELSE IF slot = None
    THEN [slot |-> None,
          ret |-> Err(Error("Query", "No query preformed in closure"))]
    ELSE [slot |-> None, ret |-> Ok(<<query_res.val, slot[1]>>)]

with_response_end(slot, locked, query_res) ==
    IF ~query_res.ok THEN [slot |-> slot, ret |-> query_res]
    ELSE IF ~locked.ok THEN [slot |-> slot, ret |-> Err(Error("Poison", locked.err))]
    ELSE IF slot = None
    THEN [slot |-> None,
          ret |-> Err(Error("Query", "No query preformed in closure"))]
    ELSE [slot |-> None, ret |-> Ok(<<query_res.val, slot[1]>>)]

(***************************************************************************)
(* The state machine of src/src/state_machine.rs: step_flush runs a step   *)
(* against a buffering wrapper around the store and applies the buffered   *)
(* writes only when the step succeeded.  CounterSM is the counter machine  *)
(* of the tests: its action and result are u8.                             *)
(***************************************************************************)
U8Max == 255

\* b"n" and b"count".
KeyN == <<110>>

KeyCount == <<99, 111, 117, 110, 116>>

\* MapStore::wrap(store): reads fall through to the wrapped store, writes
\* stay in the wrapper's own map until they are flushed.
MapStore_wrap(s) == [base |-> s, map |-> EmptyStore]

Wrapped_get(w, key) ==
    IF key \in DOMAIN w.map THEN Ok(Some(w.map[key])) ELSE Ok(StoreGet(w.base, key))

Wrapped_put(w, key, value) == [w EXCEPT !.map = StorePut(w.map, key, value)]

MapStore_finish(w) == w.map

\* flush(store): every buffered write is applied to the store.
MapStore_flush(map, s) ==
    [k \in DOMAIN s \cup DOMAIN map |-> IF k \in DOMAIN map THEN map[k] ELSE s[k]]

CounterSM_get(key, w) ==
    LET got == Wrapped_get(w, key) IN
    IF ~got.ok THEN got
    ELSE IF got.val = None THEN Ok(0)
    ELSE Ok(got.val[1][1])

CounterSM_put(key, value, w) == Wrapped_put(w, key, <<value>>)

\* CounterSM::step.  count + 1 is u8 arithmetic: at 255 it panics in a build
\* with overflow checks and wraps to 0 in a build without.
\* Mutant of CounterSM_step: the action is checked before "n" is written.
CounterSM_step_check_first(n, w, overflow) ==
    LET count == CounterSM_get(KeyCount, w).val
        w1 == CounterSM_put(KeyN, n, w)
    IN  IF count # n THEN [store |-> w, ret |-> Err("Invalid count")]
        ELSE IF count + 1 > U8Max /\ overflow = "panic"
        THEN [store |-> w1, ret |-> Panic]
        ELSE [store |-> CounterSM_put(KeyCount, (count + 1) % (U8Max + 1), w1),
              ret |-> Ok((count + 1) % (U8Max + 1))]

CounterSM_step(n, w, overflow) ==
    LET w1 == CounterSM_put(KeyN, n, w)
        count == CounterSM_get(KeyCount, w1).val
    IN  IF count # n THEN [store |-> w1, ret |-> Err("Invalid count")]
        ELSE IF count + 1 > U8Max /\ overflow = "panic"
        THEN [store |-> w1, ret |-> Panic]
        ELSE [store |-> CounterSM_put(KeyCount, (count + 1) % (U8Max + 1), w1),
              ret |-> Ok((count + 1) % (U8Max + 1))]

\* Mutant of step_flush: the step's writes are applied whatever it returned.
step_flush_unbuffered(action, s, overflow) ==
    LET flush_store == MapStore_wrap(s)
        stepped == CounterSM_step(action, flush_store, overflow)
    IN  [store |-> MapStore_flush(MapStore_finish(stepped.store), s),
         ret |-> stepped.ret]

step_flush(action, s, overflow) ==
    LET flush_store == MapStore_wrap(s)
        stepped == CounterSM_step(action, flush_store, overflow)
    IN  IF ~stepped.ret.ok THEN [store |-> s, ret |-> stepped.ret]
        ELSE [store |-> MapStore_flush(MapStore_finish(stepped.store), s),
              ret |-> stepped.ret]

(***************************************************************************)
(* IBC routing, src/src/ibc/router.rs and src/src/ibc/port.rs.  Port and   *)
(* module identifiers are strings; a route is the field of IbcRouter that  *)
(* holds the module.                                                       *)
(***************************************************************************)
\* ibc::applications::transfer::MODULE_ID_STR.
MODULE_ID_STR == "transfer"

\* PortId::transfer().
PortId_transfer == "transfer"

IbcRouter_get_route(module_id) ==
    IF module_id = MODULE_ID_STR THEN Some("transfer") ELSE None

IbcRouter_get_route_mut(module_id) ==
    IF module_id = MODULE_ID_STR THEN Some("transfer") ELSE None

\* Mutant of IbcRouter_lookup_module: every port leads to the transfer
\* module.
IbcRouter_lookup_module_any_port(port_id) == Some(MODULE_ID_STR)

IbcRouter_lookup_module(port_id) ==
    LET transfer_port == PortId_transfer
        transfer_module_id == MODULE_ID_STR
    IN  IF port_id = transfer_port THEN Some(transfer_module_id) ELSE None

\* PortReader for Ibc.
Ibc_lookup_module_by_port(port_id) ==
    IF port_id = "transfer" THEN Ok("transfer")
    ELSE Err(Error("unknown_port", port_id))

(***************************************************************************)
(* QueryPlugin<T>, src/src/plugins/query.rs: a store and the inner state   *)
(* in a RefCell.  T is the Baz of the tests: beep is u32, its calls are    *)
(* inc_beep(n) and other_baz_method(), its queries read a field.           *)
(***************************************************************************)
\* A u32 is held as two 16-bit halves, the high one first.
Half == 65536

U32(n) == <<n \div Half, n % Half>>

\* a + b in u32 arithmetic: the sum modulo 2^32, and whether it overflowed.
U32_add(a, b) ==
    LET lo == a[2] + b[2]
        hi == a[1] + b[1] + lo \div Half
    IN  [sum |-> <<hi % Half, lo % Half>>, overflowed |-> hi >= Half]

Baz_default == [beep |-> U32(0), boop |-> 0]

QueryPlugin_default == [prefix |-> <<>>, inner |-> Baz_default]

\* self.beep += n is u32 arithmetic: past 2^32 - 1 it panics in a build
\* with overflow checks and wraps in a build without.
Baz_inc_beep(self, n, overflow) ==
    LET added == U32_add(self.beep, n) IN
    IF added.overflowed /\ overflow = "panic"
    THEN [inner |-> self, ret |-> Panic]
    ELSE [inner |-> [self EXCEPT !.beep = added.sum], ret |-> Ok(Unit)]

Baz_other_baz_method(self) == [inner |-> self, ret |-> Ok(Unit)]

\* The Call of Baz: the method the call names is applied to the state.
Baz_call(self, call, overflow) ==
    IF call.method = "inc_beep" THEN Baz_inc_beep(self, call.n, overflow)
    ELSE Baz_other_baz_method(self)

\* The Query of Baz: a field is read through &self.
Baz_query(self, query) == Ok(Unit)

\* Store::with_prefix(prefix).get(key): the backing store is read under the
\* prefix followed by the key.
Store_get(prefix, map, key) == Ok(StoreGet(map, prefix \o key))

\* The Query enum of the plugin: a value of one variant holds the variant's
\* payload, the other two fields being empty.
NoQuery == ""

NoCall == [method |-> "", n |-> U32(0)]

Query_Query(q) == [variant |-> "Query", query |-> q, call |-> NoCall, key |-> <<>>]

Query_Call(c) == [variant |-> "Call", query |-> NoQuery, call |-> c, key |-> <<>>]

Query_RawKey(k) == [variant |-> "RawKey", query |-> NoQuery, call |-> NoCall, key |-> k]

\* State::attach of the plugin: the store handle given replaces the plugin's
\* own, and the inner state is attached to it; attaching a Baz, whose fields
\* are integers, changes nothing in it.  A handle is known by its prefix.
QueryPlugin_attach(self, prefix) ==
    [plugin |-> [self EXCEPT !.prefix = prefix], ret |-> Ok(Unit)]

QueryPlugin_call(self, call, overflow) ==
    LET r == Baz_call(self.inner, call, overflow) IN
    [plugin |-> [self EXCEPT !.inner = r.inner], ret |-> r.ret]

\* Mutant of QueryPlugin_query: a call that comes as a query is applied to
\* a copy of the inner state.
QueryPlugin_query_call_on_copy(self, map, query, overflow) ==
    IF query.variant = "Query"
    THEN [plugin |-> self, store |-> map, ret |-> Baz_query(self.inner, query.query)]
    ELSE IF query.variant = "Call"
    THEN [plugin |-> self, store |-> map,
          ret |-> Baz_call(self.inner, query.call, overflow).ret]
    ELSE LET got == Store_get(<<>>, map, query.key) IN
         [plugin |-> self, store |-> map, ret |-> IF got.ok THEN Ok(Unit) ELSE got]

\* QueryPlugin::query: the plugin and the backing store it leaves, and its
\* return value.
QueryPlugin_query(self, map, query, overflow) ==
    IF query.variant = "Query"
    THEN [plugin |-> self, store |-> map, ret |-> Baz_query(self.inner, query.query)]
    ELSE IF query.variant = "Call"
    THEN LET r == Baz_call(self.inner, query.call, overflow) IN
         [plugin |-> [self EXCEPT !.inner = r.inner], store |-> map, ret |-> r.ret]
    ELSE LET got == Store_get(<<>>, map, query.key) IN
         [plugin |-> self, store |-> map, ret |-> IF got.ok THEN Ok(Unit) ELSE got]

(***************************************************************************)
(* The collections under test.                                             *)
(*   Map<MapStore, Vec<u64>, u64>: its keys are the empty vector, the      *)
(*   one-element vectors, and two long vectors whose encodings are exactly *)
(*   as long as the key array and one element longer.                      *)
(*   EntryMap<MapEntry>, MapEntry { #[key] key: u32, value: u32 }.         *)
(***************************************************************************)
MapK == VecTy(8)

MapV == UintTy(8)

KeyElems == {1} \cup {256 * i : i \in 1..MaxKeyHi}

MapKeys == {<<>>} \cup {<<e>> : e \in KeyElems} \cup LongVecs

Vals == {255, 256}

MapEntry == [keys |-> <<TRUE, FALSE>>, ws |-> <<4, 4>>]

EntryKeys == {12, 13, 14, 256}

Entries == {<<k, v>> : k \in EntryKeys, v \in Vals}

\* The bounds of the range scans: a lower bound at key 13 and an upper bound
\* at key 14, each inclusive, exclusive or absent.
LowerBounds == {Unbounded, Included(<<13>>), Excluded(<<13>>)}

UpperBounds == {Unbounded, Included(<<14>>), Excluded(<<14>>)}

NoOp == [name |-> "none", arg |-> <<>>]

\* The operations that read the collection through a shared reference: a
\* live iterator stays as it is over them.
Reads == {"get", "contains", "contains_entry_key"}

\* The call that made the live iterator: <<name, argument>>.  next() and the
\* reads carry it along in op.
Origin ==
    IF op.name = "next" THEN op.arg
    ELSE IF op.name \in Reads THEN op.origin
    ELSE <<op.name, op.arg>>

\* What the EntryMap holds: its buffer laid over the store.
Held == MapView(store, children)

\* No BackingStore is under test: the variable holds the default value.
BackingIdle ==
    /\ backing = BackingStore_default
    /\ built = EmptyStore

\* No with_response call has been made: no slot exists.
ResponseIdle ==
    /\ slots = <<>>
    /\ calls = <<>>

\* No state machine is under test.
CounterIdle == oks = 0

\* No QueryPlugin is under test: the variable holds the default value.
PluginIdle == plugin = QueryPlugin_default

\* No query call is under way and the adapter has no response-capture slot.
QueryIdle ==
    /\ pc = "idle"
    /\ res = None
    /\ res_store = None
    /\ steps = <<>>
    /\ given = None

Init ==
    /\ coll \in {"Map", "EntryMap"}
    /\ store = EmptyStore
    /\ pre = EmptyStore
    /\ op = NoOp
    /\ ret = Unit
    /\ iter = NoIter
    /\ yielded = <<>>
    /\ BackingIdle
    /\ ResponseIdle
    /\ CounterIdle
    /\ PluginIdle
    /\ children = NoChildren
    /\ QueryIdle

\* A mutation needs the collection exclusively, so it ends any iteration.
CallMapInsert(k, v) ==
    LET r == Map_insert(store, MapK, MapV, k, v) IN
    /\ coll = "Map"
    /\ Cardinality(DOMAIN r.store) <= MaxEntries
    /\ store' = r.store
    /\ pre' = store
    /\ op' = [name |-> "insert", arg |-> <<k, v>>]
    /\ ret' = r.ret
    /\ iter' = NoIter
    /\ yielded' = <<>>
    /\ UNCHANGED <<coll, bvars, wvars, oks, plugin, children, qvars>>

CallMapDelete(k) ==
    LET r == Map_delete(store, MapK, k) IN
    /\ coll = "Map"
    /\ store' = r.store
    /\ pre' = store
    /\ op' = [name |-> "delete", arg |-> k]
    /\ ret' = r.ret
    /\ iter' = NoIter
    /\ yielded' = <<>>
    /\ UNCHANGED <<coll, bvars, wvars, oks, plugin, children, qvars>>

\* get takes the map by shared reference: a live iterator is left alone.
CallMapGet(k) ==
    /\ coll = "Map"
    /\ op' = [name |-> "get", arg |-> k, origin |-> Origin]
    /\ ret' = Map_get(store, MapK, MapV, k)
    /\ pre' = store
    /\ UNCHANGED <<coll, store, iter, yielded, bvars, wvars, oks, plugin, children, qvars>>

CallMapIterFrom(start) ==
    LET r == Map_iter_from(MapK, start) IN
    /\ coll = "Map"
    /\ op' = [name |-> "iter_from", arg |-> start]
    /\ ret' = Unit
    /\ iter' = r.val
    /\ yielded' = <<>>
    /\ pre' = store
    /\ UNCHANGED <<coll, store, bvars, wvars, oks, plugin, children, qvars>>

CallMapIter ==
    /\ coll = "Map"
    /\ op' = [name |-> "iter", arg |-> <<>>]
    /\ ret' = Unit
    /\ iter' = Map_iter
    /\ yielded' = <<>>
    /\ pre' = store
    /\ UNCHANGED <<coll, store, bvars, wvars, oks, plugin, children, qvars>>

\* next() on the live iterator; the iterator is fused, and the model stops
\* calling it once it has returned None.
CallIterNext ==
    /\ coll = "Map"
    /\ iter.live
    /\ ~iter.done
    /\ LET r == Iter_next(store, MapK, MapV, iter) IN
       /\ iter' = r.iter
       /\ ret' = IF r.panic THEN "panic" ELSE r.item
       /\ yielded' = IF r.item = None THEN yielded ELSE Append(yielded, r.item[1])
    /\ op' = [name |-> "next", arg |-> Origin]
    /\ pre' = store
    /\ UNCHANGED <<coll, store, bvars, wvars, oks, plugin, children, qvars>>

\* insert and delete write to the map's buffer; the store is as it was until
\* flush.  They take the map exclusively, so they end any iteration.
CallEntryInsert(e) ==
    LET r == EntryMap_insert(children, MapEntry, e) IN
    /\ coll = "EntryMap"
    /\ Cardinality(DOMAIN store) + Cardinality(DOMAIN r.children) <= MaxEntries
    /\ children' = r.children
    /\ pre' = Held
    /\ op' = [name |-> "insert", arg |-> e]
    /\ ret' = r.ret
    /\ iter' = NoIter
    /\ yielded' = <<>>
    /\ UNCHANGED <<coll, store, bvars, wvars, oks, plugin, qvars>>

CallEntryDelete(e) ==
    LET r == EntryMap_delete(store, children, MapEntry, e) IN
    /\ coll = "EntryMap"
    /\ Cardinality(DOMAIN store) + Cardinality(DOMAIN r.children) <= MaxEntries
    /\ children' = r.children
    /\ pre' = Held
    /\ op' = [name |-> "delete", arg |-> e]
    /\ ret' = r.ret
    /\ iter' = NoIter
    /\ yielded' = <<>>
    /\ UNCHANGED <<coll, store, bvars, wvars, oks, plugin, qvars>>

\* flush applies the buffer to the store and empties it.
CallEntryFlush ==
    LET r == EntryMap_flush(store, children) IN
    /\ coll = "EntryMap"
    /\ store' = r.store
    /\ children' = r.children
    /\ pre' = Held
    /\ op' = [name |-> "flush", arg |-> <<>>]
    /\ ret' = r.ret
    /\ iter' = NoIter
    /\ yielded' = <<>>
    /\ UNCHANGED <<coll, bvars, wvars, oks, plugin, qvars>>

\* The map is dropped and another one is made over the same store: what the
\* first one had not flushed is gone.
CallEntryWithStore ==
    LET r == EntryMap_with_store(store) IN
    /\ coll = "EntryMap"
    /\ children' = r.val.children
    /\ pre' = Held
    /\ op' = [name |-> "with_store", arg |-> <<>>]
    /\ ret' = Unit
    /\ iter' = NoIter
    /\ yielded' = <<>>
    /\ UNCHANGED <<coll, store, bvars, wvars, oks, plugin, qvars>>

\* contains and contains_entry_key take the map by shared reference: a live
\* iterator is left alone.
CallEntryContains(e) ==
    /\ coll = "EntryMap"
    /\ op' = [name |-> "contains", arg |-> e, origin |-> Origin]
    /\ ret' = EntryMap_contains(store, children, MapEntry, e)
    /\ pre' = Held
    /\ UNCHANGED <<coll, store, iter, yielded, bvars, wvars, oks, plugin, children, qvars>>

CallEntryContainsKey(e) ==
    /\ coll = "EntryMap"
    /\ op' = [name |-> "contains_entry_key", arg |-> e, origin |-> Origin]
    /\ ret' = EntryMap_contains_entry_key(store, children, MapEntry, e)
    /\ pre' = Held
    /\ UNCHANGED <<coll, store, iter, yielded, bvars, wvars, oks, plugin, children, qvars>>

CallEntryIter ==
    /\ coll = "EntryMap"
    /\ op' = [name |-> "iter", arg |-> <<>>]
    /\ ret' = Unit
    /\ iter' = EntryMap_iter.val
    /\ yielded' = <<>>
    /\ pre' = Held
    /\ UNCHANGED <<coll, store, bvars, wvars, oks, plugin, children, qvars>>

CallEntryRange(lo, hi) ==
    /\ coll = "EntryMap"
    /\ op' = [name |-> "range", arg |-> <<lo, hi>>]
    /\ ret' = Unit
    /\ iter' = EntryMap_range(MapEntry, lo, hi).val
    /\ yielded' = <<>>
    /\ pre' = Held
    /\ UNCHANGED <<coll, store, bvars, wvars, oks, plugin, children, qvars>>

\* next() on the live iterator of the EntryMap: an item is a Result; a fatal
\* fault of the map's iterator ends the iteration.
CallEntryIterNext ==
    /\ coll = "EntryMap"
    /\ iter.live
    /\ ~iter.done
    /\ LET r == EntryIter_next(store, children, MapEntry, iter) IN
       /\ iter' = r.iter
       /\ ret' = IF r.panic THEN "panic" ELSE r.item
       /\ yielded' = IF r.item = None THEN yielded ELSE Append(yielded, r.item[1])
    /\ op' = [name |-> "next", arg |-> Origin]
    /\ pre' = Held
    /\ UNCHANGED <<coll, store, bvars, wvars, oks, plugin, children, qvars>>

\* Map and EntryMap written and looked up, also while a scan is under way.
Next ==
    \/ \E k \in MapKeys, v \in Vals : CallMapInsert(k, v)
    \/ \E k \in MapKeys : CallMapDelete(k)
    \/ \E k \in MapKeys : CallMapGet(k)
    \/ CallMapIter
    \/ CallIterNext
    \/ \E e \in Entries : CallEntryInsert(e)
    \/ \E e \in Entries : CallEntryContains(e)
    \/ \E e \in Entries : CallEntryContainsKey(e)
    \/ CallEntryIter
    \/ CallEntryIterNext

Spec == Init /\ [][Next]_vars

(***************************************************************************)
(* The scans of Map and EntryMap: the collection is written (and the       *)
(* EntryMap flushed) and scanned, by iter() and by iter_from(start).       *)
(***************************************************************************)
NextScan ==
    \/ \E k \in MapKeys, v \in Vals : CallMapInsert(k, v)
    \/ \E k \in MapKeys : CallMapDelete(k)
    \/ \E k \in MapKeys : CallMapIterFrom(k)
    \/ CallMapIter
    \/ CallIterNext
    \/ \E e \in Entries : CallEntryInsert(e)
    \/ \E e \in Entries : CallEntryDelete(e)
    \/ CallEntryFlush
    \/ CallEntryIter
    \/ CallEntryIterNext

SpecScan == Init /\ [][NextScan]_vars

(***************************************************************************)
(* Every operation of Map: the map is written, looked up and scanned, by   *)
(* iter() and by iter_from(start), lookups also while a scan is under way. *)
(***************************************************************************)
\* The keys at which the scans by iter_from start.
FrameStarts == {<<1>>, <<256>>}

NextFrame ==
    \/ \E k \in MapKeys, v \in Vals : CallMapInsert(k, v)
    \/ \E k \in MapKeys : CallMapDelete(k)
    \/ \E k \in MapKeys : CallMapGet(k)
    \/ \E k \in FrameStarts : CallMapIterFrom(k)
    \/ CallMapIter
    \/ CallIterNext

SpecFrame == Init /\ [][NextFrame]_vars

(***************************************************************************)
(* EntryMap<MapEntry> and its lookups: the map is written, flushed,        *)
(* dropped and made again over the store, and asked with contains and      *)
(* contains_entry_key.                                                     *)
(***************************************************************************)
InitEntry ==
    /\ Init
    /\ coll = "EntryMap"

NextEntry ==
    \/ \E e \in Entries : CallEntryInsert(e)
    \/ \E e \in Entries : CallEntryDelete(e)
    \/ CallEntryFlush
    \/ CallEntryWithStore
    \/ \E e \in Entries : CallEntryContains(e)
    \/ \E e \in Entries : CallEntryContainsKey(e)

SpecEntry == InitEntry /\ [][NextEntry]_vars

(***************************************************************************)
(* EntryMap<MapEntry> and its range scans: the map is written, flushed and *)
(* scanned, by iter() and by range() with every kind of bound.             *)
(***************************************************************************)
InitRange ==
    /\ Init
    /\ coll = "EntryMap"

NextRange ==
    \/ \E e \in Entries : CallEntryInsert(e)
    \/ \E e \in Entries : CallEntryDelete(e)
    \/ CallEntryFlush
    \/ CallEntryIter
    \/ \E lo \in LowerBounds, hi \in UpperBounds : CallEntryRange(lo, hi)
    \/ CallEntryIterNext

SpecRange == InitRange /\ [][NextRange]_vars

(***************************************************************************)
(* EntryMap over a record with a composite key, and the Entry split on its *)
(* own.                                                                    *)
(*   MultiKeyMapEntry { #[key] key_1: u32, #[key] key_2: u8,               *)
(*                      #[key] key_3: u16, value: u32 }                    *)
(*   MyNamedStruct { #[key] my_key_1: u32, #[key] my_key_2: u16,           *)
(*                   my_val: u8 }                                          *)
(*   TupleMapEntry(#[key] u32, u32)                                        *)
(*   InterleavedEntry: a record whose key fields stand between its other   *)
(*   fields, { a: u8, #[key] b: u16, c: u8, #[key] d: u8 }.                *)
(***************************************************************************)
MultiKeyMapEntry == [keys |-> <<TRUE, TRUE, TRUE, FALSE>>, ws |-> <<4, 1, 2, 4>>]

\* Mutant of MyNamedStruct: my_key_2 is not marked #[key].
MyNamedStruct_one_key == [keys |-> <<TRUE, FALSE, FALSE>>, ws |-> <<4, 2, 1>>]

MyNamedStruct == [keys |-> <<TRUE, TRUE, FALSE>>, ws |-> <<4, 2, 1>>]

TupleMapEntry == [keys |-> <<TRUE, FALSE>>, ws |-> <<4, 4>>]

InterleavedEntry == [keys |-> <<FALSE, TRUE, FALSE, TRUE>>, ws |-> <<1, 2, 1, 1>>]

EntryTypes == {MultiKeyMapEntry, MyNamedStruct, TupleMapEntry, InterleavedEntry}

MultiKeys ==
    {<<0, 0, 1>>, <<1, 0, 1>>, <<0, 1, 0>>, <<0, 1, 1>>, <<0, 0, 256>>, <<256, 0, 0>>}

MultiVals == {1, 9}

MultiEntries == {k \o <<v>> : k \in MultiKeys, v \in MultiVals}

\* The records of each type that the split is applied to.
FieldVals == {12, 13, 14}

RecordsOf(T) == [1..Len(T.keys) -> FieldVals]

\* The (key, value) pairs of each type.
PairsOf(T) ==
    [1..Len(KeyTy(T).ws) -> FieldVals] \X [1..Len(ValueTy(T).ws) -> FieldVals]

InitMulti ==
    /\ coll = "MultiKeyEntryMap"
    /\ store = EmptyStore
    /\ pre = EmptyStore
    /\ op = NoOp
    /\ ret = Unit
    /\ iter = NoIter
    /\ yielded = <<>>
    /\ BackingIdle
    /\ ResponseIdle
    /\ CounterIdle
    /\ PluginIdle
    /\ children = NoChildren
    /\ QueryIdle

CallMultiInsert(e) ==
    LET r == EntryMap_insert(children, MultiKeyMapEntry, e) IN
    /\ Cardinality(DOMAIN store) + Cardinality(DOMAIN r.children) <= MaxEntries
    /\ children' = r.children
    /\ pre' = Held
    /\ op' = [name |-> "insert", arg |-> e]
    /\ ret' = r.ret
    /\ iter' = NoIter
    /\ yielded' = <<>>
    /\ UNCHANGED <<coll, store, bvars, wvars, oks, plugin, qvars>>

CallMultiFlush ==
    LET r == EntryMap_flush(store, children) IN
    /\ store' = r.store
    /\ children' = r.children
    /\ pre' = Held
    /\ op' = [name |-> "flush", arg |-> <<>>]
    /\ ret' = r.ret
    /\ iter' = NoIter
    /\ yielded' = <<>>
    /\ UNCHANGED <<coll, bvars, wvars, oks, plugin, qvars>>

CallMultiWithStore ==
    LET r == EntryMap_with_store(store) IN
    /\ children' = r.val.children
    /\ pre' = Held
    /\ op' = [name |-> "with_store", arg |-> <<>>]
    /\ ret' = Unit
    /\ iter' = NoIter
    /\ yielded' = <<>>
    /\ UNCHANGED <<coll, store, bvars, wvars, oks, plugin, qvars>>

CallMultiIter ==
    /\ op' = [name |-> "iter", arg |-> <<>>]
    /\ ret' = Unit
    /\ iter' = EntryMap_iter.val
    /\ yielded' = <<>>
    /\ pre' = Held
    /\ UNCHANGED <<coll, store, bvars, wvars, oks, plugin, children, qvars>>

CallMultiIterNext ==
    /\ iter.live
    /\ ~iter.done
    /\ LET r == EntryIter_next(store, children, MultiKeyMapEntry, iter) IN
       /\ iter' = r.iter
       /\ ret' = IF r.panic THEN "panic" ELSE r.item
       /\ yielded' = IF r.item = None THEN yielded ELSE Append(yielded, r.item[1])
    /\ op' = [name |-> "next", arg |-> Origin]
    /\ pre' = Held
    /\ UNCHANGED <<coll, store, bvars, wvars, oks, plugin, children, qvars>>

CallIntoEntry(T, t) ==
    /\ op' = [name |-> "into_entry", arg |-> <<T, t>>]
    /\ ret' = into_entry(T, t)
    /\ iter' = NoIter
    /\ yielded' = <<>>
    /\ pre' = store
    /\ UNCHANGED <<coll, store, bvars, wvars, oks, plugin, children, qvars>>

CallFromEntry(T, p) ==
    /\ op' = [name |-> "from_entry", arg |-> <<T, p>>]
    /\ ret' = from_entry(T, p)
    /\ iter' = NoIter
    /\ yielded' = <<>>
    /\ pre' = store
    /\ UNCHANGED <<coll, store, bvars, wvars, oks, plugin, children, qvars>>

NextMulti ==
    \/ \E e \in MultiEntries : CallMultiInsert(e)
    \/ CallMultiFlush
    \/ CallMultiWithStore
    \/ CallMultiIter
    \/ CallMultiIterNext

SpecMulti == InitMulti /\ [][NextMulti]_vars

\* The Entry split applied to records and pairs, no store being involved.
InitSplit ==
    /\ coll = "Entry"
    /\ store = EmptyStore
    /\ pre = EmptyStore
    /\ op = NoOp
    /\ ret = Unit
    /\ iter = NoIter
    /\ yielded = <<>>
    /\ BackingIdle
    /\ ResponseIdle
    /\ CounterIdle
    /\ PluginIdle
    /\ children = NoChildren
    /\ QueryIdle

NextSplit ==
    \/ \E T \in EntryTypes : \E t \in RecordsOf(T) : CallIntoEntry(T, t)
    \/ \E T \in EntryTypes : \E p \in PairsOf(T) : CallFromEntry(T, p)

SpecSplit == InitSplit /\ [][NextSplit]_vars

(***************************************************************************)
(* The encoding under test: the types of tests/derive.rs, values of each   *)
(* type, and byte strings to decode (encodings, whole and cut short).      *)
(***************************************************************************)
\* Mutant of Foo: field a is declared u16.
Foo_wide_a == StructTy(<<UintTy(2), OptionTy(UintTy(1))>>)

Foo == StructTy(<<UintTy(1), OptionTy(UintTy(1))>>)

MyStruct2 == StructTy(<<UintTy(4), UintTy(4)>>)

MyStruct == StructTy(<<UintTy(4), MyStruct2>>)

CodecTypes == {UintTy(1), UintTy(4), OptionTy(UintTy(1)), Foo, MyStruct2, MyStruct}

U8Vals == {0, 1, 5, 6, 255}

U32Vals == {0, 5, 6, 123, 65536}

RECURSIVE ValuesOf(_)
RECURSIVE ValuesOfFields(_, _)
ValuesOfFields(fields, i) ==
    IF i > Len(fields) THEN {<<>>}
    ELSE {<<x>> \o xs : x \in ValuesOf(fields[i]),
                        xs \in ValuesOfFields(fields, i + 1)}

ValuesOf(ty) ==
    IF ty.kind = "uint" THEN (IF ty.ws[1] = 1 THEN U8Vals ELSE U32Vals)
    ELSE IF ty.kind = "option" THEN {None} \cup {Some(x) : x \in ValuesOf(ty.of)}
    ELSE ValuesOfFields(ty.fields, 1)

BytesOf(ty) ==
    LET whole == {Encode(ty, v) : v \in ValuesOf(ty)} IN
    whole \cup {SubSeq(b, 1, Len(b) - 1) : b \in whole \ {<<>>}}
          \cup {<<2>> \o b : b \in whole}

InitCodec ==
    /\ coll = "Codec"
    /\ store = EmptyStore
    /\ pre = EmptyStore
    /\ op = NoOp
    /\ ret = Unit
    /\ iter = NoIter
    /\ yielded = <<>>
    /\ BackingIdle
    /\ ResponseIdle
    /\ CounterIdle
    /\ PluginIdle
    /\ children = NoChildren
    /\ QueryIdle

CallEncode(ty, v) ==
    /\ op' = [name |-> "encode", arg |-> <<ty, v>>]
    /\ ret' = Ok(Encode(ty, v))
    /\ UNCHANGED <<coll, store, pre, iter, yielded, bvars, wvars, oks, plugin, children, qvars>>

CallDecode(ty, b) ==
    /\ op' = [name |-> "decode", arg |-> <<ty, b>>]
    /\ ret' = Decode(ty, b)
    /\ UNCHANGED <<coll, store, pre, iter, yielded, bvars, wvars, oks, plugin, children, qvars>>

NextCodec ==
    \/ \E ty \in CodecTypes : \E v \in ValuesOf(ty) : CallEncode(ty, v)
    \/ \E ty \in CodecTypes : \E b \in BytesOf(ty) : CallDecode(ty, b)

SpecCodec == InitCodec /\ [][NextCodec]_vars

(***************************************************************************)
(* Iteration over stored bytes that were not written through the           *)
(* collection: a store holding any bytes, some of which do not decode as   *)
(* the collection's key or value type, wrapped in a Map or an EntryMap and *)
(* iterated.                                                               *)
(***************************************************************************)
RawKeys == {<<>>, <<0, 0, 7>>, Encode(MapK, <<1>>), Encode(MapK, <<2>>)}

RawVals == {Encode(MapV, 255), <<7>>}

RawStores == UNION {[D -> RawVals] : D \in SUBSET RawKeys}

InitDecode ==
    /\ coll \in {"Map", "EntryMap"}
    /\ store \in RawStores
    /\ pre = store
    /\ op = NoOp
    /\ ret = Unit
    /\ iter = NoIter
    /\ yielded = <<>>
    /\ BackingIdle
    /\ ResponseIdle
    /\ CounterIdle
    /\ PluginIdle
    /\ children = NoChildren
    /\ QueryIdle

NextDecode ==
    \/ CallMapIter
    \/ CallIterNext
    \/ CallEntryIter
    \/ CallEntryIterNext

SpecDecode == InitDecode /\ [][NextDecode]_vars

(***************************************************************************)
(* A BackingStore under test: any variant over any mapping (the Null       *)
(* variant holds nothing), then any sequence of reads, writes and          *)
(* downcasts.  A downcast consumes the value, so it is made on a clone.    *)
(***************************************************************************)
StoreKeys == {<<>>, <<1>>, <<1, 0>>}

ProbeKeys == StoreKeys \cup {<<0>>}

StoreVals == {<<7>>, <<8>>}

Mappings == UNION {[D -> StoreVals] : D \in SUBSET StoreKeys}

BackingStores ==
    {[variant |-> v, data |-> m] : v \in Variants \ {"Null"}, m \in Mappings}
        \cup {BackingStore_default}

InitBacking ==
    /\ coll = "BackingStore"
    /\ store = EmptyStore
    /\ pre = EmptyStore
    /\ op = NoOp
    /\ ret = Unit
    /\ iter = NoIter
    /\ yielded = <<>>
    /\ backing \in BackingStores
    /\ built = backing.data
    /\ ResponseIdle
    /\ CounterIdle
    /\ PluginIdle
    /\ children = NoChildren
    /\ QueryIdle

CallBackingGet(key) ==
    /\ op' = [name |-> "get", arg |-> key]
    /\ ret' = BackingStore_get(backing, key)
    /\ UNCHANGED <<coll, store, pre, iter, yielded, bvars, wvars, oks, plugin, children, qvars>>

CallBackingGetNext(key) ==
    /\ op' = [name |-> "get_next", arg |-> key]
    /\ ret' = BackingStore_get_next(backing, key)
    /\ UNCHANGED <<coll, store, pre, iter, yielded, bvars, wvars, oks, plugin, children, qvars>>

CallBackingPut(key, value) ==
    LET r == BackingStore_put(backing, key, value) IN
    /\ op' = [name |-> "put", arg |-> <<key, value>>]
    /\ ret' = r.ret
    /\ backing' = r.backing
    /\ UNCHANGED <<coll, store, pre, iter, yielded, built, qvars, wvars, oks, plugin, children>>

CallBackingDelete(key) ==
    LET r == BackingStore_delete(backing, key) IN
    /\ op' = [name |-> "delete", arg |-> key]
    /\ ret' = r.ret
    /\ backing' = r.backing
    /\ UNCHANGED <<coll, store, pre, iter, yielded, built, qvars, wvars, oks, plugin, children>>

CallIntoProofBuilder ==
    /\ op' = [name |-> "into_proof_builder", arg |-> <<>>]
    /\ ret' = into_proof_builder(backing)
    /\ UNCHANGED <<coll, store, pre, iter, yielded, bvars, wvars, oks, plugin, children, qvars>>

CallIntoWrappedMerk ==
    /\ op' = [name |-> "into_wrapped_merk", arg |-> <<>>]
    /\ ret' = into_wrapped_merk(backing)
    /\ UNCHANGED <<coll, store, pre, iter, yielded, bvars, wvars, oks, plugin, children, qvars>>

CallIntoMapStore ==
    /\ op' = [name |-> "into_map_store", arg |-> <<>>]
    /\ ret' = into_map_store(backing)
    /\ UNCHANGED <<coll, store, pre, iter, yielded, bvars, wvars, oks, plugin, children, qvars>>

NextBacking ==
    \/ \E key \in ProbeKeys : CallBackingGet(key)
    \/ \E key \in ProbeKeys : CallBackingGetNext(key)
    \/ \E key \in StoreKeys, value \in StoreVals : CallBackingPut(key, value)
    \/ \E key \in StoreKeys : CallBackingDelete(key)
    \/ CallIntoProofBuilder
    \/ CallIntoWrappedMerk
    \/ CallIntoMapStore

SpecBacking == InitBacking /\ [][NextBacking]_vars

(***************************************************************************)
(* The query client under test.  The remote endpoint answers a query with  *)
(* any response: a status code, a log text and a payload.  The payloads    *)
(* are the genuine ones (root hash, then a proof of a mapping), the same   *)
(* with one byte changed or the last byte cut off, and payloads too short  *)
(* to hold a root hash.                                                    *)
(***************************************************************************)
RECURSIVE ProofOf(_)
ProofOf(m) ==
    IF DOMAIN m = {} THEN <<>>
    ELSE LET k == LeastKey(DOMAIN m) IN
         <<Len(k)>> \o k \o <<Len(m[k])>> \o m[k] \o ProofOf(StoreDelete(m, k))

Payload(m) == Hash(ProofOf(m)) \o ProofOf(m)

Flip(b, i) == [b EXCEPT ![i] = (b[i] + 1) % 256]

\* The snapshot 258 under the empty key, alone and with another entry; the
\* snapshot 7; a mapping without the empty key; the empty mapping; a root
\* value too short to be a snapshot.
QueryMappings ==
    {StorePut(EmptyStore, <<>>, Encode(StateTy, 258)),
     StorePut(EmptyStore, <<>>, Encode(StateTy, 7)),
     StorePut(StorePut(EmptyStore, <<>>, Encode(StateTy, 258)), <<1>>, <<9>>),
     StorePut(EmptyStore, <<1>>, <<9>>),
     EmptyStore,
     StorePut(EmptyStore, <<>>, <<5>>)}

Genuine == {Payload(m) : m \in QueryMappings}

Payloads ==
    Genuine
        \cup {Flip(b, i) : b \in Genuine, i \in {1, HashLen}}
        \cup {Flip(b, Len(b)) : b \in Genuine}
        \cup {SubSeq(b, 1, Len(b) - 1) : b \in Genuine}
        \cup {<<>>}

Codes == {0, 1}

Logs == {"", "out of gas"}

Responses == [code : Codes, log : Logs, value : Payloads]

SendOutcomes ==
    {Err(Error("TendermintRPC", "connection refused"))} \cup {Ok(r) : r \in Responses}

Queries == {0, 1}

EncodeOutcomes(query) ==
    {Ok(Encode(UintTy(1), query)), Err(Error("Ed", "unexpected end of output"))}

AttachOutcomes == {Ok(Unit), Err(Error("State", "attach failed"))}

CheckOutcomes == {Ok("accepted"), Err(Error("App", "rejected"))}

InitQuery ==
    /\ coll = "Query"
    /\ store = EmptyStore
    /\ pre = EmptyStore
    /\ op = NoOp
    /\ ret = Unit
    /\ iter = NoIter
    /\ yielded = <<>>
    /\ BackingIdle
    /\ ResponseIdle
    /\ CounterIdle
    /\ PluginIdle
    /\ children = NoChildren
    /\ pc = "idle"
    /\ res = None
    /\ res_store \in {None, Some(None)}
    /\ steps = <<>>
    /\ given = None

\* query up to its suspension point: the query is encoded and sent.  The
\* call's arguments are the query and the acceptance callback, which is
\* modelled by the result it returns when invoked.
QueryIssue(query, query_bytes, check_result) ==
    /\ pc \in {"idle", "done"}
    /\ op' = [name |-> "query", arg |-> query, encoded |-> query_bytes,
              check |-> check_result, locked |-> None]
    /\ pc' = IF query_bytes.ok THEN "awaiting" ELSE "done"
    /\ ret' = IF query_bytes.ok THEN Unit ELSE query_bytes
    /\ res' = None
    /\ steps' = <<>>
    /\ given' = None
    /\ UNCHANGED <<coll, store, pre, iter, yielded, bvars, wvars, oks, plugin, children, res_store>>

\* The future of query is dropped at its suspension point, the await of the
\* request: the call ends there and nothing is written.
QueryCancel ==
    /\ pc = "awaiting"
    /\ pc' = "idle"
    /\ UNCHANGED <<coll, store, pre, iter, yielded, bvars, wvars, oks, plugin, children, op, ret,
                   res, res_store, steps, given>>

\* Mutex::lock on a slot: the guard, or the error of a poisoned lock.
LockOutcomes == {Ok(Unit), Err("poisoned lock: another task failed inside")}

\* Two raw responses: one of a failed status, one whose payload is genuine.
RawResponses ==
    {[code |-> 1, log |-> "", value |-> <<>>],
     [code |-> 0, log |-> "", value |-> Payload(EmptyStore)]}

\* query from its suspension point to the release of the slot's lock: the
\* request ends and the slot (if the adapter has one) captures the response.
\* The call ends here when the request failed or the lock could not be
\* acquired; op.locked records the outcome of the lock, if it was tried.
\* Mutant of QueryResume: when the request fails and the slot holds the
\* response of an earlier call, the call is answered from the slot.
QueryResume_cached(sent, locked) ==
    LET cached == ~sent.ok /\ res_store # None /\ res_store[1] # None
        r == query_response(res_store, sent, locked)
        end == IF cached
               THEN query_status(res_store[1][1], Ok(Unit), op.check, <<"issue">>)
               ELSE r.end[1]
    IN
    /\ pc = "awaiting"
    /\ pc' = IF r.end = None THEN "captured" ELSE "done"
    /\ op' = [op EXCEPT !.locked = IF sent.ok /\ res_store # None
                                   THEN Some(locked) ELSE None]
    /\ res' = IF sent.ok THEN Some(sent.val) ELSE None
    /\ res_store' = r.slot
    /\ ret' = IF r.end = None THEN Unit ELSE end.ret
    /\ steps' = IF r.end = None THEN <<"issue">> ELSE end.steps
    /\ given' = IF r.end = None THEN None ELSE end.given
    /\ UNCHANGED <<coll, store, pre, iter, yielded, bvars, wvars, oks, plugin, children>>

QueryResume(sent, locked) ==
    LET r == query_response(res_store, sent, locked) IN
    /\ pc = "awaiting"
    /\ pc' = IF r.end = None THEN "captured" ELSE "done"
    /\ op' = [op EXCEPT !.locked = IF sent.ok /\ res_store # None
                                   THEN Some(locked) ELSE None]
    /\ res' = IF sent.ok THEN Some(sent.val) ELSE None
    /\ res_store' = r.slot
    /\ ret' = IF r.end = None THEN Unit ELSE r.end[1].ret
    /\ steps' = IF r.end = None THEN <<"issue">> ELSE r.end[1].steps
    /\ given' = IF r.end = None THEN None ELSE r.end[1].given
    /\ UNCHANGED <<coll, store, pre, iter, yielded, bvars, wvars, oks, plugin, children>>

\* query after the lock was released: the status check, the root hash, the
\* verification, the lookup, the load, the attach and the callback, on the
\* response the call received.  The slot is not read.
QueryFinish(attach_result) ==
    LET end == query_status(res[1], attach_result, op.check, steps) IN
    /\ pc = "captured"
    /\ pc' = "done"
    /\ ret' = end.ret
    /\ steps' = end.steps
    /\ given' = end.given
    /\ UNCHANGED <<coll, store, pre, iter, yielded, bvars, wvars, oks, plugin, children, op,
                   res, res_store>>

\* A clone of the adapter shares the slot: its holder's query captures a
\* response of its own, at any point of this adapter's call.
CloneCapture(response) ==
    /\ res_store # None
    /\ res_store' = Capture(res_store, response)
    /\ res_store' # res_store
    /\ UNCHANGED <<coll, store, pre, iter, yielded, bvars, wvars, oks, plugin, children, op,
                   ret, pc, res, steps, given>>

NextQuery ==
    \/ \E query \in Queries : \E query_bytes \in EncodeOutcomes(query) :
       \E check_result \in CheckOutcomes :
           QueryIssue(query, query_bytes, check_result)
    \/ \E sent \in SendOutcomes, locked \in LockOutcomes : QueryResume(sent, locked)
    \/ \E attach_result \in AttachOutcomes : QueryFinish(attach_result)
    \/ QueryCancel
    \/ \E response \in RawResponses : CloneCapture(response)

SpecQuery == InitQuery /\ [][NextQuery]_vars

(***************************************************************************)
(* The transaction call under test: a call is encoded and broadcast, and   *)
(* the commit response carries a code and a log for each of the two        *)
(* stages.                                                                 *)
(***************************************************************************)
TxCodes == {0, 1, 5}

TxLogs == {"", "out of gas", "bad nonce"}

TxResults == [code : TxCodes, log : TxLogs]

CommitResponses == [check_tx : TxResults, deliver_tx : TxResults]

BroadcastOutcomes ==
    {Err(Error("TendermintRPC", "connection refused"))}
        \cup {Ok(r) : r \in CommitResponses}

Calls == {0, 1}

InitCall ==
    /\ coll = "Call"
    /\ store = EmptyStore
    /\ pre = EmptyStore
    /\ op = NoOp
    /\ ret = Unit
    /\ iter = NoIter
    /\ yielded = <<>>
    /\ BackingIdle
    /\ ResponseIdle
    /\ CounterIdle
    /\ PluginIdle
    /\ children = NoChildren
    /\ QueryIdle

\* call up to its suspension point: the call is encoded and broadcast.
CallIssue(call, tx) ==
    /\ pc \in {"idle", "done"}
    /\ op' = [name |-> "call", arg |-> call, encoded |-> tx]
    /\ pc' = IF tx.ok THEN "awaiting" ELSE "done"
    /\ ret' = IF tx.ok THEN Unit ELSE tx
    /\ res' = None
    /\ UNCHANGED <<coll, store, pre, iter, yielded, bvars, wvars, oks, plugin, children, res_store, steps, given>>

\* call from its suspension point to its end: the broadcast ends and the two
\* codes of the commit response are examined.
CallResume(tx_res) ==
    /\ pc = "awaiting"
    /\ pc' = "done"
    /\ res' = IF tx_res.ok THEN Some(tx_res.val) ELSE None
    /\ ret' = TendermintAdapter_call(tx_res)
    /\ UNCHANGED <<coll, store, pre, iter, yielded, bvars, wvars, oks, plugin, children, op, res_store, steps, given>>

NextCall ==
    \/ \E call \in Calls : \E tx \in EncodeOutcomes(call) : CallIssue(call, tx)
    \/ \E tx_res \in BroadcastOutcomes : CallResume(tx_res)

SpecCall == InitCall /\ [][NextCall]_vars

(***************************************************************************)
(* with_response under test: two calls on one TendermintClient, run as     *)
(* two futures that are polled in any order.  A closure is modelled by the *)
(* number of queries it makes through the client it is given and by the    *)
(* result it returns.                                                      *)
(***************************************************************************)
MaxQueries == 2

CallIds == {1, 2}

ClosureResults == {Ok("first"), Ok("second"), Err(Error("App", "rejected"))}

Closures == [queries : 0..MaxQueries, result : ClosureResults]

RawOutcomes ==
    {Err(Error("TendermintRPC", "connection refused"))}
        \cup {Ok(r) : r \in RawResponses}

IdleCall ==
    [pc |-> "idle", res_store |-> None, f |-> None, left |-> 0, got |-> None,
     overlapped |-> FALSE, query_ret |-> None, locked |-> None, ret |-> None]

Running(c) == calls[c].pc \in {"closure", "awaiting"}

InitResponse ==
    /\ coll = "with_response"
    /\ store = EmptyStore
    /\ pre = EmptyStore
    /\ op = NoOp
    /\ ret = Unit
    /\ iter = NoIter
    /\ yielded = <<>>
    /\ BackingIdle
    /\ QueryIdle
    /\ CounterIdle
    /\ PluginIdle
    /\ children = NoChildren
    /\ slots = <<>>
    /\ calls = [c \in CallIds |-> IdleCall]

\* with_response up to the closure's first suspension point: the slot is
\* made, the client handed to the closure refers to it.
WithResponseStart(c, f) ==
    LET new == NewSlot(slots) IN
    /\ calls[c].pc = "idle"
    /\ slots' = new.slots
    /\ calls' = [calls EXCEPT ![c] = [IdleCall EXCEPT !.pc = "closure",
                                                      !.res_store = Some(new.ref),
                                                      !.f = Some(f),
                                                      !.left = f.queries]]
    /\ UNCHANGED <<coll, store, pre, op, ret, iter, yielded, bvars, qvars, oks, plugin, children>>

\* The closure issues a query through its client and is suspended.
ClosureQueryIssue(c) ==
    /\ calls[c].pc = "closure"
    /\ calls[c].left > 0
    /\ calls' = [calls EXCEPT ![c].pc = "awaiting"]
    /\ UNCHANGED <<coll, store, pre, op, ret, iter, yielded, bvars, qvars, slots, oks, plugin, children>>

\* The query of the closure is resumed: a response is put into the slot the
\* client refers to, unless the request failed or the slot's lock cannot be
\* acquired; query_ret is what query has returned to the closure by then, if
\* it has returned.
ClosureQueryResume(c, sent, locked) ==
    LET ref == calls[c].res_store[1]
        captured == query_capture(slots[ref], locked, sent.val)
    IN
    /\ calls[c].pc = "awaiting"
    /\ slots' = IF sent.ok THEN [slots EXCEPT ![ref] = captured.slot] ELSE slots
    /\ calls' = [calls EXCEPT
                    ![c].pc = "closure",
                    ![c].left = calls[c].left - 1,
                    ![c].got = IF sent.ok /\ captured.ret.ok THEN Some(sent.val)
                               ELSE calls[c].got,
                    ![c].locked = IF sent.ok THEN Some(locked) ELSE None,
                    ![c].query_ret = IF ~sent.ok THEN Some(sent)
                                     ELSE IF ~captured.ret.ok THEN Some(captured.ret)
                                     ELSE None,
                    ![c].overlapped = calls[c].overlapped
                                          \/ \E d \in CallIds \ {c} : Running(d)]
    /\ UNCHANGED <<coll, store, pre, op, ret, iter, yielded, bvars, qvars, oks, plugin, children>>

\* The closure's future completes and with_response returns.
WithResponseEnd(c, locked) ==
    LET ref == calls[c].res_store[1]
        end == with_response_end(slots[ref], locked, calls[c].f[1].result)
    IN  /\ calls[c].pc = "closure"
        /\ calls[c].left = 0
        /\ slots' = [slots EXCEPT ![ref] = end.slot]
        /\ calls' = [calls EXCEPT ![c].pc = "done",
                                  ![c].locked = IF calls[c].f[1].result.ok
                                                THEN Some(locked) ELSE None,
                                  ![c].ret = Some(end.ret)]
        /\ UNCHANGED <<coll, store, pre, op, ret, iter, yielded, bvars, qvars, oks, plugin, children>>

NextResponse ==
    \/ \E c \in CallIds, f \in Closures : WithResponseStart(c, f)
    \/ \E c \in CallIds : ClosureQueryIssue(c)
    \/ \E c \in CallIds, sent \in RawOutcomes, locked \in LockOutcomes :
           ClosureQueryResume(c, sent, locked)
    \/ \E c \in CallIds, locked \in LockOutcomes : WithResponseEnd(c, locked)

SpecResponse == InitResponse /\ [][NextResponse]_vars

(***************************************************************************)
(* The counter machine under test: step_flush is called on a store that    *)
(* starts empty, with the action that the stored count calls for and with  *)
(* actions that it need not call for.                                      *)
(***************************************************************************)
MaxOks == 257

\* The count a store holds, as CounterSM reads it.
Counted(s) == IF KeyCount \in DOMAIN s THEN s[KeyCount][1] ELSE 0

ActionsFor(s) == {Counted(s), (Counted(s) + 1) % (U8Max + 1), 0, 100}

Overflows == {"panic", "wrap"}

InitCounter ==
    /\ coll = "CounterSM"
    /\ store = EmptyStore
    /\ pre = EmptyStore
    /\ op = NoOp
    /\ ret = Unit
    /\ iter = NoIter
    /\ yielded = <<>>
    /\ BackingIdle
    /\ ResponseIdle
    /\ QueryIdle
    /\ oks = 0
    /\ PluginIdle
    /\ children = NoChildren

CallStepFlush(n, overflow) ==
    LET r == step_flush(n, store, overflow) IN
    /\ coll = "CounterSM"
    /\ oks < MaxOks
    /\ op' = [name |-> "step_flush", arg |-> n]
    /\ pre' = store
    /\ store' = r.store
    /\ ret' = r.ret
    /\ oks' = IF r.ret.ok THEN oks + 1 ELSE oks
    /\ UNCHANGED <<coll, iter, yielded, bvars, wvars, qvars, plugin, children>>

NextCounter ==
    \E n \in ActionsFor(store), overflow \in Overflows : CallStepFlush(n, overflow)

SpecCounter == InitCounter /\ [][NextCounter]_vars

(***************************************************************************)
(* The counter machine stepped directly on a MapStore, without step_flush: *)
(* the store is itself the map that the step writes to.                    *)
(***************************************************************************)
InitStep ==
    /\ coll = "CounterSM::step"
    /\ store = EmptyStore
    /\ pre = EmptyStore
    /\ op = NoOp
    /\ ret = Unit
    /\ iter = NoIter
    /\ yielded = <<>>
    /\ BackingIdle
    /\ ResponseIdle
    /\ CounterIdle
    /\ PluginIdle
    /\ children = NoChildren
    /\ QueryIdle

CallStep(n, overflow) ==
    LET r == CounterSM_step(n, [base |-> EmptyStore, map |-> store], overflow) IN
    /\ coll = "CounterSM::step"
    /\ op' = [name |-> "step", arg |-> n]
    /\ pre' = store
    /\ store' = MapStore_finish(r.store)
    /\ ret' = r.ret
    /\ UNCHANGED <<coll, iter, yielded, bvars, wvars, oks, plugin, children, qvars>>

NextStep ==
    \E n \in ActionsFor(store), overflow \in Overflows : CallStep(n, overflow)

SpecStep == InitStep /\ [][NextStep]_vars

(***************************************************************************)
(* The IBC router under test: lookups by any valid port identifier and     *)
(* any module identifier, among them "transfer", identifiers that differ   *)
(* from it in case, and identifiers that start with it or that it starts   *)
(* with.                                                                   *)
(***************************************************************************)
Identifiers ==
    {a \o b : a \in {"transfer", "Transfer", "trans", "icahost", "wasm.", "tr"},
              b \in {"", "fer", "-1", "transfer", "2"}}

InitRouter ==
    /\ coll = "IbcRouter"
    /\ store = EmptyStore
    /\ pre = EmptyStore
    /\ op = NoOp
    /\ ret = Unit
    /\ iter = NoIter
    /\ yielded = <<>>
    /\ BackingIdle
    /\ ResponseIdle
    /\ CounterIdle
    /\ PluginIdle
    /\ children = NoChildren
    /\ QueryIdle

CallGetRoute(module_id) ==
    /\ op' = [name |-> "get_route", arg |-> module_id]
    /\ ret' = IbcRouter_get_route(module_id)
    /\ UNCHANGED <<coll, store, pre, iter, yielded, bvars, wvars, oks, plugin, children, qvars>>

CallGetRouteMut(module_id) ==
    /\ op' = [name |-> "get_route_mut", arg |-> module_id]
    /\ ret' = IbcRouter_get_route_mut(module_id)
    /\ UNCHANGED <<coll, store, pre, iter, yielded, bvars, wvars, oks, plugin, children, qvars>>

CallLookupModule(port_id) ==
    /\ op' = [name |-> "lookup_module", arg |-> port_id]
    /\ ret' = IbcRouter_lookup_module(port_id)
    /\ UNCHANGED <<coll, store, pre, iter, yielded, bvars, wvars, oks, plugin, children, qvars>>

CallLookupModuleByPort(port_id) ==
    /\ op' = [name |-> "lookup_module_by_port", arg |-> port_id]
    /\ ret' = Ibc_lookup_module_by_port(port_id)
    /\ UNCHANGED <<coll, store, pre, iter, yielded, bvars, wvars, oks, plugin, children, qvars>>

NextRouter ==
    \/ \E module_id \in Identifiers : CallGetRoute(module_id)
    \/ \E module_id \in Identifiers : CallGetRouteMut(module_id)
    \/ \E port_id \in Identifiers : CallLookupModule(port_id)
    \/ \E port_id \in Identifiers : CallLookupModuleByPort(port_id)

SpecRouter == InitRouter /\ [][NextRouter]_vars

(***************************************************************************)
(* The QueryPlugin under test: a default plugin over a store holding any   *)
(* mapping, then any sequence of attaches under any prefix, of queries of  *)
(* the three variants and of calls.  inc_beep is called while beep is      *)
(* below MaxBeep, with increments of the test and one that overflows u32.  *)
(***************************************************************************)
MaxBeep == 30

Prefixes == {<<>>, <<1>>}

BazCalls ==
    {[method |-> "inc_beep", n |-> n] :
        n \in {U32(10), U32(15), <<Half - 1, Half - 10>>}}
        \cup {[method |-> "other_baz_method", n |-> U32(0)]}

BazQueries == {"beep", "boop"}

PluginQueries ==
    {Query_Query(q) : q \in BazQueries}
        \cup {Query_Call(c) : c \in BazCalls}
        \cup {Query_RawKey(k) : k \in ProbeKeys}

CallAllowed(call) ==
    call.method = "inc_beep" =>
        plugin.inner.beep[1] = 0 /\ plugin.inner.beep[2] < MaxBeep

InitPlugin ==
    /\ coll = "QueryPlugin"
    /\ store \in Mappings
    /\ pre = store
    /\ op = NoOp
    /\ ret = Unit
    /\ iter = NoIter
    /\ yielded = <<>>
    /\ BackingIdle
    /\ ResponseIdle
    /\ CounterIdle
    /\ QueryIdle
    /\ children = NoChildren
    /\ plugin = QueryPlugin_default

CallPluginAttach(prefix) ==
    LET r == QueryPlugin_attach(plugin, prefix) IN
    /\ op' = [name |-> "attach", arg |-> prefix, before |-> plugin]
    /\ ret' = r.ret
    /\ plugin' = r.plugin
    /\ pre' = store
    /\ UNCHANGED <<coll, store, iter, yielded, bvars, wvars, oks, qvars, children>>

CallPluginQuery(query, overflow) ==
    LET r == QueryPlugin_query(plugin, store, query, overflow) IN
    /\ query.variant = "Call" => CallAllowed(query.call)
    /\ op' = [name |-> "query", arg |-> query, overflow |-> overflow,
              before |-> plugin]
    /\ ret' = r.ret
    /\ plugin' = r.plugin
    /\ store' = r.store
    /\ pre' = store
    /\ UNCHANGED <<coll, iter, yielded, bvars, wvars, oks, qvars, children>>

CallPluginCall(call, overflow) ==
    LET r == QueryPlugin_call(plugin, call, overflow) IN
    /\ CallAllowed(call)
    /\ op' = [name |-> "call", arg |-> call, overflow |-> overflow,
              before |-> plugin]
    /\ ret' = r.ret
    /\ plugin' = r.plugin
    /\ pre' = store
    /\ UNCHANGED <<coll, store, iter, yielded, bvars, wvars, oks, qvars, children>>

NextPlugin ==
    \/ \E prefix \in Prefixes : CallPluginAttach(prefix)
    \/ \E query \in PluginQueries, overflow \in Overflows :
           CallPluginQuery(query, overflow)
    \/ \E call \in BazCalls, overflow \in Overflows : CallPluginCall(call, overflow)

SpecPlugin == InitPlugin /\ [][NextPlugin]_vars

(***************************************************************************)
(* What the claims speak of, stated over typed keys and values:            *)
(* independent of the byte order of the store.                             *)
(***************************************************************************)
\* Rust's order on Vec<u64> and on tuples of integers: lexicographic.
SeqLess(a, b) ==
    \E i \in 1..(Len(a) + 1) :
        /\ i <= Len(b)
        /\ \A j \in 1..(i - 1) : a[j] = b[j]
        /\ (i = Len(a) + 1 \/ a[i] < b[i])

\* The key's encoding fits the 256-byte key array (8 bytes per element).
Fits(k) == Len(k) * 8 <= KeyBufLen

KeyBytes(k) == Encode(MapK, k)

\* The typed (key, value) pairs a Map store holds, and the records an
\* EntryMap store holds.
MapPairs(s) ==
    {p \in MapKeys \X Vals :
        KeyBytes(p[1]) \in DOMAIN s /\ s[KeyBytes(p[1])] = Encode(MapV, p[2])}

EntryBytes(k) == Encode(KeyTy(MapEntry), <<k>>)

StoredEntries(s) ==
    {e \in Entries :
        /\ EntryBytes(e[1]) \in DOMAIN s
        /\ s[EntryBytes(e[1])] = Encode(ValueTy(MapEntry), <<e[2]>>)}

\* The pairs of S in ascending order of their first component.
RECURSIVE SortPairs(_)
SortPairs(S) ==
    IF S = {} THEN <<>>
    ELSE LET m == CHOOSE p \in S : \A q \in S : q = p \/ SeqLess(p[1], q[1])
         IN  <<m>> \o SortPairs(S \ {m})

RECURSIVE SortEntries(_)
SortEntries(S) ==
    IF S = {} THEN <<>>
    ELSE LET m == CHOOSE e \in S : \A q \in S : q = e \/ e[1] < q[1]
         IN  <<m>> \o SortEntries(S \ {m})

IsPrefix(a, b) == Len(a) <= Len(b) /\ SubSeq(b, 1, Len(a)) = a

\* An iteration so far agrees with the sequence it must produce: what it has
\* yielded is the start of that sequence, and all of it once it has ended.
Follows(expected) ==
    /\ IsPrefix(yielded, expected)
    /\ iter.done => yielded = expected

\* The same for an EntryMap iteration, whose items are Results: every item
\* is Ok, and the records inside agree with the sequence.
Records(items) == [i \in 1..Len(items) |-> items[i].val]

FollowsOk(expected) ==
    /\ \A i \in 1..Len(yielded) : yielded[i].ok
    /\ IsPrefix(Records(yielded), expected)
    /\ iter.done => Records(yielded) = expected

InRange(k, lo, hi) ==
    /\ lo.kind = "Included" => k >= lo.key[1]
    /\ lo.kind = "Excluded" => k > lo.key[1]
    /\ hi.kind = "Included" => k <= hi.key[1]
    /\ hi.kind = "Excluded" => k < hi.key[1]

(***************************************************************************)
(* C1.  After Map::insert(k, v) with a key whose encoding fits 256 bytes,  *)
(* insert has returned Ok, get(k) returns Some(v) (the value of this, the  *)
(* most recent, insert, whatever was stored under k before), and the store *)
(* holds exactly one entry for k: the entries are those from before plus   *)
(* the one of k.                                                           *)
(***************************************************************************)
C1_InsertThenGet ==
    (coll = "Map" /\ op.name = "insert" /\ Fits(op.arg[1])) =>
        /\ ret = Ok(Unit)
        /\ Map_get(store, MapK, MapV, op.arg[1]) = Ok(Some(op.arg[2]))
        /\ DOMAIN store = DOMAIN pre \cup {KeyBytes(op.arg[1])}
        /\ Cardinality({b \in DOMAIN store : Decode(MapK, b) = Ok(op.arg[1])}) = 1

\* An insert that overwrote another value, under a key of exactly 256 bytes.
C1_Witness ==
    /\ coll = "Map"
    /\ op.name = "insert"
    /\ Len(KeyBytes(op.arg[1])) = KeyBufLen
    /\ KeyBytes(op.arg[1]) \in DOMAIN pre
    /\ pre[KeyBytes(op.arg[1])] # store[KeyBytes(op.arg[1])]

(***************************************************************************)
(* C2.  As claimed, for every key: once delete(k) was the last operation,  *)
(* get(k) returns None.                                                    *)
(***************************************************************************)
C2_Original ==
    (coll = "Map" /\ op.name = "delete") =>
        Map_get(store, MapK, MapV, op.arg) = Ok(None)

(***************************************************************************)
(* C2, amended to the keys whose encoding fits 256 bytes.  For each such   *)
(* key k: get(k) is None before any operation; after insert(k, _) it is    *)
(* Some; after delete(k) it is None; and an operation that is neither      *)
(* leaves get(k) as it was.  By induction over the operations, get(k) is   *)
(* None exactly when k was never inserted or the last insert or delete of  *)
(* k was a delete.                                                         *)
(***************************************************************************)
C2_DeleteThenGet ==
    coll = "Map" =>
        \A k \in {x \in MapKeys : Fits(x)} :
            LET g == Map_get(store, MapK, MapV, k) IN
            IF op.name = "none" THEN g = Ok(None)
            ELSE IF op.name = "insert" /\ op.arg[1] = k THEN g.ok /\ g.val # None
            ELSE IF op.name = "delete" /\ op.arg = k THEN ret = Ok(Unit) /\ g = Ok(None)
            ELSE g = Map_get(pre, MapK, MapV, k)

\* A delete of a stored key, other keys being stored too.
C2_Witness ==
    /\ coll = "Map"
    /\ op.name = "delete"
    /\ KeyBytes(op.arg) \in DOMAIN pre
    /\ Cardinality(DOMAIN store) >= 2
    /\ Map_get(store, MapK, MapV, op.arg) = Ok(None)

(***************************************************************************)
(* C3.  An iteration made by Map::iter_from(start) yields exactly the      *)
(* stored pairs whose key is greater than or equal to start, in ascending  *)
(* key order, and then ends: at every moment what it has yielded is the    *)
(* start of that sequence, and it is the whole sequence once next() has    *)
(* returned None.                                                          *)
(***************************************************************************)
C3_IterFrom ==
    (coll = "Map" /\ iter.live /\ Origin[1] = "iter_from") =>
        Follows(SortPairs({p \in MapPairs(store) : ~SeqLess(p[1], Origin[2])}))

\* A finished iter_from over three stored keys: start itself is stored and is
\* the first pair yielded, one key is below start, one above.
C3_Witness ==
    /\ coll = "Map"
    /\ iter.live
    /\ iter.done
    /\ Origin[1] = "iter_from"
    /\ Cardinality(DOMAIN store) = 3
    /\ Len(yielded) = 2
    /\ yielded[1][1] = Origin[2]

(***************************************************************************)
(* C4.  Map::iter() and EntryMap::iter() scan the collection once: over n  *)
(* entries (for a Map the entries of the store, for an EntryMap the        *)
(* entries the map holds, flushed or not), the items yielded are held      *)
(* entries in strictly ascending key order (so none is yielded twice),     *)
(* there are never more than n of them, next() returns None exactly when n *)
(* items have been yielded, and the scan has then yielded every entry.     *)
(***************************************************************************)
C4_IterOnePass ==
    (iter.live /\ Origin[1] = "iter") =>
        LET n == Cardinality(DOMAIN (IF coll = "Map" THEN store ELSE Held)) IN
        /\ Len(yielded) <= n
        /\ iter.done => Len(yielded) = n
        /\ IF coll = "Map"
           THEN /\ \A i \in 1..Len(yielded) : yielded[i] \in MapPairs(store)
                /\ \A i \in 1..(Len(yielded) - 1) :
                       SeqLess(yielded[i][1], yielded[i + 1][1])
                /\ ~iter.done =>
                       (Iter_next(store, MapK, MapV, iter).item = None
                            <=> Len(yielded) = n)
           ELSE /\ \A i \in 1..Len(yielded) :
                       yielded[i].ok /\ yielded[i].val \in StoredEntries(Held)
                /\ \A i \in 1..(Len(yielded) - 1) :
                       yielded[i].val[1] < yielded[i + 1].val[1]
                /\ ~iter.done =>
                       (EntryIter_next(store, children, MapEntry, iter).item = None
                            <=> Len(yielded) = n)

\* A finished iter() over a full Map store that holds the longest key.
C4_Witness ==
    /\ coll = "Map"
    /\ iter.live
    /\ iter.done
    /\ Origin[1] = "iter"
    /\ Len(yielded) = MaxEntries
    /\ \E i \in 1..Len(yielded) : ~Fits(yielded[i][1])

(***************************************************************************)
(* C6.  As claimed: insert, get and delete alike fail with an encoding     *)
(* error on a key whose encoding is longer than 256 bytes, and the store   *)
(* is left as it was.                                                      *)
(***************************************************************************)
C6_LongKeyFails ==
    (coll = "Map" /\ op.name \in {"insert", "get", "delete"}
        /\ ~Fits(IF op.name = "insert" THEN op.arg[1] ELSE op.arg)) =>
        /\ ret = Err("Encode")
        /\ store = pre

(***************************************************************************)
(* C7.  As claimed, for every key: Map::delete of a key that is not in the *)
(* store returns Ok(()) and leaves the store unchanged.                    *)
(***************************************************************************)
C7_Original ==
    (coll = "Map" /\ op.name = "delete" /\ KeyBytes(op.arg) \notin DOMAIN pre) =>
        /\ ret = Ok(Unit)
        /\ store = pre

(***************************************************************************)
(* C7, amended to the keys whose encoding fits 256 bytes: Map::delete of   *)
(* such a key that is not in the store returns Ok(()) and leaves the store *)
(* unchanged.                                                              *)
(***************************************************************************)
C7_DeleteAbsent ==
    (coll = "Map" /\ op.name = "delete" /\ Fits(op.arg)
        /\ KeyBytes(op.arg) \notin DOMAIN pre) =>
        /\ ret = Ok(Unit)
        /\ store = pre

\* A delete of a key that is not stored, from a store that holds other keys.
C7_Witness ==
    /\ coll = "Map"
    /\ op.name = "delete"
    /\ Fits(op.arg)
    /\ KeyBytes(op.arg) \notin DOMAIN pre
    /\ pre # EmptyStore
    /\ ret = Ok(Unit)

(***************************************************************************)
(* C5.  An iteration made by EntryMap::range(bounds) yields exactly the    *)
(* records the map holds whose key satisfies the bounds, in ascending key  *)
(* order,                                                                  *)
(* a boundary key being taken or left out as the bound is inclusive or     *)
(* exclusive; and range(..) and iter() both yield every stored record in   *)
(* ascending key order, hence the same sequence.                           *)
(***************************************************************************)
C5_Range ==
    (coll = "EntryMap" /\ iter.live) =>
        LET lo == IF Origin[1] = "range" THEN Origin[2][1] ELSE Unbounded
            hi == IF Origin[1] = "range" THEN Origin[2][2] ELSE Unbounded
        IN  FollowsOk(SortEntries({e \in StoredEntries(Held) : InRange(e[1], lo, hi)}))

\* A finished range(13..14) over the keys 12, 13, 14: one record, of key 13.
C5_Witness ==
    /\ coll = "EntryMap"
    /\ iter.live
    /\ iter.done
    /\ Origin = <<"range", <<Included(<<13>>), Excluded(<<14>>)>>>>
    /\ {e[1] : e \in StoredEntries(Held)} = {12, 13, 14}
    /\ Len(yielded) = 1
    /\ yielded[1] = Ok(<<13, 255>>)

(***************************************************************************)
(* C8.  EntryMap::contains_entry_key(entry) returns true iff a record with *)
(* the key of entry is held by the map (in its buffer, or in the store and *)
(* not removed in the buffer), whatever the value of entry; so it is true  *)
(* for every value once a record of that key was inserted, and false for   *)
(* every value once it was deleted and while nothing was inserted.         *)
(***************************************************************************)
C8_ContainsEntryKey ==
    coll = "EntryMap" =>
        /\ op.name = "contains_entry_key" =>
               ret = Ok(\E e \in StoredEntries(Held) : e[1] = op.arg[1])
        /\ op.name = "insert" =>
               \A v \in Vals :
                   EntryMap_contains_entry_key(store, children, MapEntry, <<op.arg[1], v>>) = Ok(TRUE)
        /\ op.name \in {"delete", "none"} =>
               \A e \in Entries :
                   (op.name = "delete" => e[1] = op.arg[1]) =>
                       EntryMap_contains_entry_key(store, children, MapEntry, e) = Ok(FALSE)

\* contains_entry_key answered true for a key the map holds, asked with a
\* value that is not the held one; the record has not been flushed yet.
C8_Witness ==
    /\ coll = "EntryMap"
    /\ op.name = "contains_entry_key"
    /\ ret = Ok(TRUE)
    /\ op.arg \notin StoredEntries(Held)
    /\ EntryBytes(op.arg[1]) \notin DOMAIN store

(***************************************************************************)
(* C9.  EntryMap::contains(entry) returns true iff the key of entry is     *)
(* stored and the stored value equals the value of entry: after            *)
(* insert(e) it is true for e and false for the same key with another      *)
(* value, and it is false for every value once the key was deleted and     *)
(* while nothing was inserted.                                             *)
(***************************************************************************)
C9_Contains ==
    coll = "EntryMap" =>
        /\ op.name = "contains" => ret = Ok(op.arg \in StoredEntries(Held))
        /\ op.name = "insert" =>
               \A v \in Vals :
                   EntryMap_contains(store, children, MapEntry, <<op.arg[1], v>>) = Ok(v = op.arg[2])
        /\ op.name \in {"delete", "none"} =>
               \A e \in Entries :
                   (op.name = "delete" => e[1] = op.arg[1]) =>
                       EntryMap_contains(store, children, MapEntry, e) = Ok(FALSE)

\* contains answered false for a stored key asked with another value.
C9_Witness ==
    /\ coll = "EntryMap"
    /\ op.name = "contains"
    /\ ret = Ok(FALSE)
    /\ \E e \in StoredEntries(Held) : e[1] = op.arg[1] /\ e[2] # op.arg[2]

(***************************************************************************)
(* C10.  EntryMap::delete(entry) removes the record stored under the key   *)
(* of entry, whatever the value of entry: afterwards contains and          *)
(* contains_entry_key are false for that key with every value, and the     *)
(* records under the other keys are those from before.                     *)
(***************************************************************************)
C10_EntryDelete ==
    (coll = "EntryMap" /\ op.name = "delete") =>
        /\ ret = Ok(Unit)
        /\ \A v \in Vals :
               /\ EntryMap_contains(store, children, MapEntry, <<op.arg[1], v>>) = Ok(FALSE)
               /\ EntryMap_contains_entry_key(store, children, MapEntry, <<op.arg[1], v>>) = Ok(FALSE)
        /\ StoredEntries(Held) = {e \in StoredEntries(pre) : e[1] # op.arg[1]}
        /\ DOMAIN Held = DOMAIN pre \ {EntryBytes(op.arg[1])}

\* A delete whose argument carries another value than the stored record's,
\* from a store that holds other records too.
C10_Witness ==
    /\ coll = "EntryMap"
    /\ op.name = "delete"
    /\ \E e \in StoredEntries(pre) : e[1] = op.arg[1] /\ e[2] # op.arg[2]
    /\ EntryBytes(op.arg[1]) \in DOMAIN store
    /\ StoredEntries(Held) # {}

(***************************************************************************)
(* What the claims about the composite key speak of.                       *)
(***************************************************************************)
\* The records an EntryMap<MultiKeyMapEntry> store holds: the stored key is
\* the record's three key fields one after the other, as big-endian integers
\* of 4, 1 and 2 bytes.
MultiKeyBytes(e) == EncodeUint(e[1], 4) \o EncodeUint(e[2], 1) \o EncodeUint(e[3], 2)

MultiStored(s) ==
    {e \in MultiEntries :
        /\ MultiKeyBytes(e) \in DOMAIN s
        /\ s[MultiKeyBytes(e)] = EncodeUint(e[4], 4)}

\* Rust's order on the key tuple (u32, u8, u16).
TupleLess(a, b) ==
    \/ a[1] < b[1]
    \/ a[1] = b[1] /\ a[2] < b[2]
    \/ a[1] = b[1] /\ a[2] = b[2] /\ a[3] < b[3]

RECURSIVE SortMulti(_)
SortMulti(S) ==
    IF S = {} THEN <<>>
    ELSE LET m == CHOOSE e \in S : \A q \in S : q = e \/ TupleLess(e, q)
         IN  <<m>> \o SortMulti(S \ {m})

(***************************************************************************)
(* C11.  In an EntryMap over a record with a composite key, every stored   *)
(* key is the concatenation of the key fields' fixed-width encodings in    *)
(* declaration order, and an iteration yields the stored records in the    *)
(* lexicographic order of the key tuples, whatever the order in which they *)
(* were inserted: what it has yielded is at every moment the start of the  *)
(* stored records sorted by key tuple, and all of them once it has ended.  *)
(***************************************************************************)
C11_CompositeOrder ==
    coll = "MultiKeyEntryMap" =>
        /\ DOMAIN Held = {MultiKeyBytes(e) : e \in MultiStored(Held)}
        /\ DOMAIN store = {MultiKeyBytes(e) : e \in MultiStored(store)}
        /\ iter.live => FollowsOk(SortMulti(MultiStored(Held)))

\* The iteration of the test: (0,0,1), (1,0,1), (0,1,0) were inserted and
\* flushed, and the finished iteration yielded (0,0,1), (0,1,0), (1,0,1).
C11_Witness ==
    /\ coll = "MultiKeyEntryMap"
    /\ iter.live
    /\ iter.done
    /\ op.name = "next"
    /\ children = NoChildren
    /\ yielded = <<Ok(<<0, 0, 1, 1>>), Ok(<<0, 1, 0, 9>>), Ok(<<1, 0, 1, 9>>)>>

(***************************************************************************)
(* C12.  The Entry split loses nothing.  into_entry(t) gives the pair of   *)
(* the #[key] fields of t, in declaration order, and of the remaining      *)
(* fields of t, in declaration order, and from_entry gives t back from it; *)
(* from_entry(p) gives a record that into_entry splits into p again.  For  *)
(* MyNamedStruct { my_key_1: 12, my_key_2: 13, my_val: 14 } the pair is    *)
(* ((12, 13), (14,)).                                                      *)
(***************************************************************************)
\* The fields of t at the positions whose #[key] mark is flag, in order.
FieldsMarked(T, t, flag) ==
    LET Marked(i) == T.keys[i] = flag
        at == SelectSeq([i \in 1..Len(T.keys) |-> i], Marked)
    IN  [k \in 1..Len(at) |-> t[at[k]]]

C12_SplitLossless ==
    coll = "Entry" =>
        /\ op.name = "into_entry" =>
               /\ ret = <<FieldsMarked(op.arg[1], op.arg[2], TRUE),
                          FieldsMarked(op.arg[1], op.arg[2], FALSE)>>
               /\ from_entry(op.arg[1], ret) = op.arg[2]
               /\ (op.arg[1] = MyNamedStruct /\ op.arg[2] = <<12, 13, 14>>) =>
                      ret = <<(<<12, 13>>), (<<14>>)>>
        /\ op.name = "from_entry" =>
               /\ into_entry(op.arg[1], ret) = op.arg[2]
               /\ Len(ret) = Len(op.arg[1].keys)
               /\ (op.arg[1] = MyNamedStruct /\ op.arg[2] = <<(<<12, 13>>), (<<14>>)>>) =>
                      ret = <<12, 13, 14>>

\* from_entry has put together a record whose key fields stand between its
\* other fields: ((13, 12), (12, 14)) gives { a: 12, b: 13, c: 14, d: 12 }.
C12_Witness ==
    /\ coll = "Entry"
    /\ op.name = "from_entry"
    /\ op.arg = <<InterleavedEntry, <<(<<13, 12>>), (<<12, 14>>)>>>>
    /\ ret = <<12, 13, 14, 12>>

(***************************************************************************)
(* C13.  A proof-reconstructed (ProofMap) BackingStore is never changed:   *)
(* whatever gets, get_nexts, puts and deletes were attempted, the mapping  *)
(* it holds is the mapping it was built from and get answers from that     *)
(* mapping; and a put or a delete on it aborts instead of returning.       *)
(***************************************************************************)
C13_ProofMapReadOnly ==
    (coll = "BackingStore" /\ backing.variant = "ProofMap") =>
        /\ backing.data = built
        /\ \A key \in ProbeKeys :
               BackingStore_get(backing, key) =
                   Ok(IF key \in DOMAIN built THEN Some(built[key]) ELSE None)
        /\ op.name \in {"put", "delete"} => ret = Panic

\* A put on a ProofMap store under a key the mapping holds with another value.
C13_Witness ==
    /\ coll = "BackingStore"
    /\ backing.variant = "ProofMap"
    /\ op.name = "put"
    /\ op.arg[1] \in DOMAIN built
    /\ built[op.arg[1]] # op.arg[2]
    /\ ret = Panic

(***************************************************************************)
(* C14.  The default BackingStore is the Null variant, and a put or a      *)
(* delete on the Null variant aborts: it does not return, and the store    *)
(* stays the empty Null store.                                             *)
(***************************************************************************)
C14_NullAborts ==
    coll = "BackingStore" =>
        /\ BackingStore_default.variant = "Null"
        /\ (backing.variant = "Null" /\ op.name \in {"put", "delete"}) =>
               /\ ret = Panic
               /\ backing = BackingStore_default

\* A delete on the Null store.
C14_Witness ==
    /\ coll = "BackingStore"
    /\ backing = BackingStore_default
    /\ op.name = "delete"
    /\ ret = Panic

(***************************************************************************)
(* C15.  get_next(key) on a BackingStore of any variant returns the entry  *)
(* of the least stored key that is strictly greater than key in the        *)
(* lexicographic order of bytes, and None when no stored key is greater;   *)
(* so it never returns the entry stored under key itself, also when key is *)
(* the empty key.                                                          *)
(***************************************************************************)
C15_GetNext ==
    (coll = "BackingStore" /\ op.name = "get_next") =>
        LET held == IF backing.variant = "Null" THEN EmptyStore ELSE backing.data
            above == {k \in DOMAIN held : SeqLess(op.arg, k)}
        IN  /\ ret.ok
            /\ above = {} => ret.val = None
            /\ above # {} =>
                   /\ ret.val # None
                   /\ ret.val[1][1] \in above
                   /\ \A k \in above : ~SeqLess(k, ret.val[1][1])
                   /\ ret.val[1][2] = held[ret.val[1][1]]

\* get_next of the empty key on a ProofMap store that holds the empty key
\* and two more keys, one a prefix of the other: the entry of the shorter.
C15_Witness ==
    /\ coll = "BackingStore"
    /\ backing.variant = "ProofMap"
    /\ op = [name |-> "get_next", arg |-> <<>>]
    /\ DOMAIN backing.data = StoreKeys
    /\ ret.val[1][1] = <<1>>

(***************************************************************************)
(* C16.  A downcast of a BackingStore succeeds exactly when the variant is *)
(* the one asked for, and then hands out the wrapped store; for every      *)
(* other variant it returns a Downcast error: it does not abort.           *)
(***************************************************************************)
C16_Downcast ==
    LET asked == [into_map_store |-> "MapStore",
                  into_proof_builder |-> "ProofBuilder",
                  into_wrapped_merk |-> "WrappedMerk"]
    IN  (coll = "BackingStore" /\ op.name \in DOMAIN asked) =>
            /\ ret # Panic
            /\ ret.ok <=> backing.variant = asked[op.name]
            /\ ret.ok => ret.val = backing.data
            /\ ~ret.ok => ret.err.kind = "Downcast"

\* into_map_store on a Merk store, which is mutable but not a MapStore.
C16_Witness ==
    /\ coll = "BackingStore"
    /\ op.name = "into_map_store"
    /\ backing.variant = "Merk"
    /\ ~ret.ok
    /\ ret.err.kind = "Downcast"

(***************************************************************************)
(* What the claims about the query call speak of.                          *)
(***************************************************************************)
\* text holds part, character for character.
Contains(text, part) ==
    \E i \in 0..(Len(text) - Len(part)) : SubSeq(text, i + 1, i + Len(part)) = part

\* The response of the call went past the capture step: the adapter has no
\* slot, or the slot's lock was acquired.
Captured == op.locked = None \/ op.locked[1].ok

\* The call has ended after a response arrived and went past the capture
\* step, its status code being zero or not.
Answered(ok) ==
    /\ coll = "Query"
    /\ pc = "done"
    /\ res # None
    /\ Captured
    /\ (res[1].code = 0) = ok

RootOf(response) == SubSeq(response.value, 1, HashLen)

ProofBytesOf(response) == SubSeq(response.value, HashLen + 1, Len(response.value))

(***************************************************************************)
(* C17.  When the response's status code is not zero, query returns a      *)
(* Query error whose message holds the response's log text character for   *)
(* character (it is "code <code>: <log>"), and the call ends at the status *)
(* check: no proof is verified, no state is loaded and the acceptance      *)
(* callback is not invoked.                                                *)
(***************************************************************************)
C17_StatusError ==
    Answered(FALSE) =>
        /\ ~ret.ok
        /\ ret # Panic
        /\ ret.err.kind = "Query"
        /\ Contains(ret.err.msg, res[1].log)
        /\ ret.err.msg = "code " \o ToString(res[1].code) \o ": " \o res[1].log
        /\ steps = <<"issue", "status">>
        /\ given = None

\* A response of code 1 and log "out of gas" whose payload is genuine and
\* holds a snapshot: the call failed all the same.
C17_Witness ==
    /\ Answered(FALSE)
    /\ res[1].log = "out of gas"
    /\ Len(res[1].value) > HashLen
    /\ verify(ProofBytesOf(res[1]), RootOf(res[1])).ok
    /\ ret.err.msg = "code 1: out of gas"

(***************************************************************************)
(* C18.  As claimed: when the response's status code is zero and its       *)
(* payload is shorter than 32 bytes, query returns the conversion error    *)
(* ("Cannot convert result to fixed size array"); it does not abort, and   *)
(* the callback is not invoked.                                            *)
(***************************************************************************)
C18_ShortPayload ==
    (Answered(TRUE) /\ Len(res[1].value) < HashLen) =>
        /\ ret = Err(Error("Tendermint", "Cannot convert result to fixed size array"))
        /\ given = None

(***************************************************************************)
(* C19.  When the status code is zero, the payload holds a root hash, and  *)
(* verify rejects the proof bytes against it, query returns verify's error *)
(* (as the Merk error it is, its text unchanged), and the call ends at the *)
(* verification: no root value is looked up in a proof store, no state is  *)
(* loaded and the acceptance callback is not invoked.                      *)
(***************************************************************************)
C19_VerifyRejected ==
    (Answered(TRUE) /\ Len(res[1].value) >= HashLen) =>
        LET verdict == verify(ProofBytesOf(res[1]), RootOf(res[1])) IN
        ~verdict.ok =>
            /\ ret = Err(Error("Merk", verdict.err.merk))
            /\ steps = <<"issue", "status", "root", "verify">>
            /\ given = None

\* A genuine payload with a snapshot in it, one byte of the proof changed:
\* the proof still reads as a mapping with a root value, and the call
\* failed with the root hash mismatch.
C19_Witness ==
    /\ Answered(TRUE)
    /\ Len(res[1].value) > HashLen
    /\ res[1].value \notin Genuine
    /\ ParseProof(ProofBytesOf(res[1])).ok
    /\ <<>> \in DOMAIN ParseProof(ProofBytesOf(res[1])).val
    /\ ret = Err(Error("Merk", "root hash mismatch"))
    /\ given = None

(***************************************************************************)
(* C20.  When the proof is verified and the verified mapping has no entry  *)
(* under the empty key, query returns the ABCI error "Missing root value", *)
(* and the call ends at the lookup: no state is loaded and the acceptance  *)
(* callback is not invoked.                                                *)
(***************************************************************************)
C20_MissingRoot ==
    (Answered(TRUE) /\ Len(res[1].value) >= HashLen) =>
        LET verdict == verify(ProofBytesOf(res[1]), RootOf(res[1])) IN
        (verdict.ok /\ <<>> \notin DOMAIN verdict.val) =>
            /\ ret = Err(Error("ABCI", "Missing root value"))
            /\ steps = <<"issue", "status", "root", "verify", "lookup">>
            /\ given = None

\* A verified mapping that holds an entry, but none under the empty key.
C20_Witness ==
    /\ Answered(TRUE)
    /\ res[1].value = Payload(StorePut(EmptyStore, <<1>>, <<9>>))
    /\ ret = Err(Error("ABCI", "Missing root value"))

(***************************************************************************)
(* C21.  When every earlier step of a query call succeeds, query returns    *)
(* exactly what the acceptance callback returned.                           *)
(***************************************************************************)
\* The response passes the status check, its proof verifies against its root
\* hash, and the verified mapping holds a snapshot under the empty key.
Loadable(response) ==
    /\ response.code = 0
    /\ Len(response.value) >= HashLen
    /\ LET map == verify(ProofBytesOf(response), RootOf(response)) IN
       /\ map.ok
       /\ <<>> \in DOMAIN map.val
       /\ State_load(map.val, map.val[<<>>]).ok

\* C21: a query call whose response is loadable returns the callback's
\* result itself, Ok(r) as Ok(r) and Err(e) as Err(e), unless attaching the
\* snapshot failed, in which case the callback was not invoked; and whenever
\* the callback was given a snapshot, the call returned the callback's result.
C21_CallbackResult ==
    /\ (Answered(TRUE) /\ Loadable(res[1])) =>
           \/ given # None /\ ret = op.check
           \/ given = None /\ ret \in AttachOutcomes /\ ~ret.ok
    /\ (coll = "Query" /\ pc = "done" /\ given # None) => ret = op.check

C21_Witness ==
    /\ Answered(TRUE)
    /\ Loadable(res[1])
    /\ given # None
    /\ op.check = Err(Error("App", "rejected"))
    /\ ret = Err(Error("App", "rejected"))

(***************************************************************************)
(* C22.  call returns Ok(()) iff both stage codes are zero; otherwise the   *)
(* failure carries the log of the first stage with a non-zero code.         *)
(***************************************************************************)
\* The call has ended with a commit response.
Committed ==
    /\ coll = "Call"
    /\ pc = "done"
    /\ res # None

\* C22: a call that received a commit response returns Ok(()) exactly when
\* the admission code and the delivery code are both zero; with a non-zero
\* admission code it fails with the admission log, whatever the delivery
\* code; with a zero admission code and a non-zero delivery code it fails
\* with the delivery log.
C22_CallOutcome ==
    Committed =>
        LET check_tx == res[1].check_tx
            deliver_tx == res[1].deliver_tx
        IN  /\ (ret = Ok(Unit)) <=> (check_tx.code = 0 /\ deliver_tx.code = 0)
            /\ check_tx.code # 0 =>
                   ret = Err(Error("ABCI", "CheckTx failed: " \o check_tx.log))
            /\ (check_tx.code = 0 /\ deliver_tx.code # 0) =>
                   ret = Err(Error("ABCI", "DeliverTx failed: " \o deliver_tx.log))

C22_Witness ==
    /\ Committed
    /\ res[1].check_tx = [code |-> 1, log |-> "bad nonce"]
    /\ res[1].deliver_tx = [code |-> 5, log |-> "out of gas"]
    /\ ret = Err(Error("ABCI", "CheckTx failed: bad nonce"))

(***************************************************************************)
(* C23.  Two concurrent with_response calls: each returns its closure's     *)
(* result with the response of its own query.                               *)
(***************************************************************************)
\* What a call returns when nothing but its own queries touched its slot.
OwnResult(c) ==
    LET f == calls[c].f[1] IN
    IF ~f.result.ok THEN f.result
    ELSE IF ~calls[c].locked[1].ok THEN Err(Error("Poison", calls[c].locked[1].err))
    ELSE IF calls[c].got = None
    THEN Err(Error("Query", "No query preformed in closure"))
    ELSE Ok(<<f.result.val, calls[c].got[1]>>)

\* C23: in every interleaving of the two calls, the slots of two started
\* calls are different slots, the slot of a running call holds the latest
\* response of that call's own queries, and a call that has returned has
\* returned its closure's error, or its closure's result paired with the
\* latest response of its own queries, or the no-query error when none of its
\* queries was answered (or the Poison error when its own slot's lock could
\* not be acquired).
C23_OwnResponse ==
    coll = "with_response" =>
        /\ \A c, d \in CallIds :
               (c # d /\ calls[c].pc # "idle" /\ calls[d].pc # "idle") =>
                   calls[c].res_store # calls[d].res_store
        /\ \A c \in CallIds :
               /\ Running(c) => slots[calls[c].res_store[1]] = calls[c].got
               /\ calls[c].pc = "done" => calls[c].ret = Some(OwnResult(c))

C23_Witness ==
    /\ coll = "with_response"
    /\ \A c \in CallIds : calls[c].pc = "done" /\ calls[c].overlapped
    /\ calls[1].ret = Some(Ok(<<"first", [code |-> 1, log |-> "", value |-> <<>>]>>))
    /\ calls[2].ret =
           Some(Ok(<<"second", [code |-> 0, log |-> "", value |-> Payload(EmptyStore)]>>))

(***************************************************************************)
(* C24.  Encoding round-trips, and a struct encodes as its fields'          *)
(* encodings one after the other in declaration order.                      *)
(***************************************************************************)
RECURSIVE Concat(_, _, _)
Concat(ty, v, i) ==
    IF i > Len(ty.fields) THEN <<>>
    ELSE Encode(ty.fields[i], v[i]) \o Concat(ty, v, i + 1)

\* An integer of width w in big-endian digits: byte j has weight 256^(w - j).
RECURSIVE BigEndian(_, _)
BigEndian(b, j) ==
    IF j > Len(b) THEN 0 ELSE b[j] * 256 ^ (Len(b) - j) + BigEndian(b, j + 1)

\* C24: every encoded value decodes to itself; decoding the encoding of a
\* value gives that value and no other value has that encoding; an integer of
\* width w encodes to w bytes, big-endian; an Option encodes to the tag 0, or
\* to the tag 1 followed by the payload's encoding; a struct encodes to the
\* concatenation of its fields' encodings in declaration order;
\* Foo { a: 5, b: Some(6) } encodes to [5, 1, 6], and the data of MyStruct
\* with a = 123, c = (5, 6) to [0, 0, 0, 123, 0, 0, 0, 5, 0, 0, 0, 6].
C24_RoundTrip ==
    coll = "Codec" =>
        /\ op.name = "encode" =>
               LET ty == op.arg[1]
                   v == op.arg[2]
               IN  /\ ret.ok
                   /\ Decode(ty, ret.val) = Ok(v)
                   /\ \A u \in ValuesOf(ty) : Encode(ty, u) = ret.val => u = v
                   /\ ty.kind = "uint" =>
                          Len(ret.val) = ty.ws[1] /\ BigEndian(ret.val, 1) = v
                   /\ ty.kind = "option" =>
                          ret.val = IF v = None THEN <<0>>
                                    ELSE <<1>> \o Encode(ty.of, v[1])
                   /\ ty.kind = "struct" => ret.val = Concat(ty, v, 1)
                   /\ (ty = Foo /\ v = <<5, Some(6)>>) => ret.val = <<5, 1, 6>>
                   /\ (ty = MyStruct /\ v = <<123, <<5, 6>>>>) =>
                          ret.val = <<0, 0, 0, 123, 0, 0, 0, 5, 0, 0, 0, 6>>
        /\ op.name = "decode" =>
               \A v \in ValuesOf(op.arg[1]) :
                   Encode(op.arg[1], v) = op.arg[2] => ret = Ok(v)

C24_Witness ==
    /\ coll = "Codec"
    /\ op.name = "decode"
    /\ op.arg = <<Foo, <<5, 1, 6>>>>
    /\ ret = Ok(<<5, Some(6)>>)

(***************************************************************************)
(* C25.  The steps of one query call run in a fixed order; a failure at a   *)
(* step ends the call with that step's error and no later step runs.        *)
(***************************************************************************)
AllSteps ==
    <<"issue", "status", "root", "verify", "lookup", "load", "attach", "check">>

\* The steps up to and including the named one.
StepsTo(step) ==
    LET n == CHOOSE i \in 1..Len(AllSteps) : AllSteps[i] = step
    IN  SubSeq(AllSteps, 1, n)

\* The step at which a call that received this response must end.
EndStep(response) ==
    IF response.code # 0 THEN "status"
    ELSE IF Len(response.value) < HashLen THEN "root"
    ELSE LET map == verify(ProofBytesOf(response), RootOf(response)) IN
         IF ~map.ok THEN "verify"
         ELSE IF <<>> \notin DOMAIN map.val THEN "lookup"
         ELSE IF ~State_load(map.val, map.val[<<>>]).ok THEN "load"
         ELSE "check"

\* C25: the steps a finished query call has performed are an initial part of
\* the fixed order, each at most once; the callback was invoked (given a
\* snapshot) only if all eight steps were performed; a call that did not
\* perform all steps ended with an error value, and it stopped exactly at the
\* step that its response fails, or at attach (the response having gone past
\* the capture step).
C25_StepOrder ==
    (coll = "Query" /\ pc = "done") =>
        /\ \E n \in 0..Len(AllSteps) : steps = SubSeq(AllSteps, 1, n)
        /\ given # None => steps = AllSteps
        /\ steps # AllSteps => (~ret.ok /\ "err" \in DOMAIN ret)
        /\ (res # None /\ Captured) =>
               IF EndStep(res[1]) = "check"
               THEN steps \in {StepsTo("attach"), AllSteps}
               ELSE steps = StepsTo(EndStep(res[1]))

(***************************************************************************)
(* C26.  A query call sends one request, whatever happens afterwards.       *)
(***************************************************************************)
\* How many requests the finished call has sent.
RECURSIVE Requests(_)
Requests(done) ==
    IF done = <<>> THEN 0
    ELSE (IF Head(done) = "issue" THEN 1 ELSE 0) + Requests(Tail(done))

\* C26 as claimed: every finished query call has sent exactly one request.
C26_Original ==
    (coll = "Query" /\ pc = "done") => Requests(steps) = 1

\* C26: a finished query call whose query was encoded has sent exactly one
\* request, whether the request failed, the status was non-zero, the payload
\* was too short, the proof was rejected, the root was missing, the snapshot
\* did not load or attach, or the callback returned an error; a call whose
\* query could not be encoded has sent none.
C26_OneRequest ==
    (coll = "Query" /\ pc = "done") =>
        Requests(steps) = IF op.encoded.ok THEN 1 ELSE 0

C26_Witness ==
    /\ Answered(TRUE)
    /\ op.encoded.ok
    /\ given # None
    /\ ~ret.ok
    /\ Requests(steps) = 1

(***************************************************************************)
(* C27.  The snapshot given to the callback comes from, and reads from,     *)
(* the mapping verified for this response.                                  *)
(***************************************************************************)
\* C27: whenever the callback was given a snapshot, the response's proof
\* (payload bytes 32..) verifies against the response's root hash (payload
\* bytes 0..32), the snapshot's value is the decoding of the bytes under the
\* empty key of the verified mapping, the snapshot is attached to a store
\* over that mapping, and every read through the snapshot gives what the
\* verified mapping holds under the key.
C27_VerifiedSnapshot ==
    (coll = "Query" /\ pc = "done" /\ given # None) =>
        /\ res # None
        /\ Len(res[1].value) >= HashLen
        /\ LET map == verify(ProofBytesOf(res[1]), RootOf(res[1])) IN
           /\ map.ok
           /\ <<>> \in DOMAIN map.val
           /\ Ok(given[1].value) = Decode(StateTy, map.val[<<>>])
           /\ given[1].store = map.val
           /\ \A key \in ProbeKeys :
                  State_get(given[1], key) =
                      Ok(IF key \in DOMAIN map.val THEN Some(map.val[key]) ELSE None)

C27_Witness ==
    /\ Answered(TRUE)
    /\ given # None
    /\ given[1].value = 7
    /\ State_get(given[1], <<>>) = Ok(Some(<<0, 7>>))
    /\ res[1].value = Payload(StorePut(EmptyStore, <<>>, <<0, 7>>))

(***************************************************************************)
(* C28.  A stored key or value that does not decode aborts the iteration    *)
(* that meets it.                                                           *)
(***************************************************************************)
\* The keys of the store in the order of the scan.
RECURSIVE RawScan(_)
RawScan(s) ==
    IF DOMAIN s = {} THEN <<>>
    ELSE LET k == LeastKey(DOMAIN s) IN <<k>> \o RawScan(StoreDelete(s, k))

\* How many entries at the start of the scan decode as key type K and value
\* type V.
RECURSIVE Decodable(_, _, _, _, _)
Decodable(s, scan, K, V, i) ==
    IF i > Len(scan) THEN 0
    ELSE IF Decode(K, scan[i]).ok /\ Decode(V, s[scan[i]]).ok
    THEN 1 + Decodable(s, scan, K, V, i + 1)
    ELSE 0

\* C28: in an iteration over the whole store, only entries before
\* the first undecodable one are ever yielded; the call of next that meets the
\* undecodable entry panics, after every entry before it was yielded, and
\* leaves no iterator to go on with; a call of next that returns gives a
\* decoded entry or None, never an error value; and an iteration that ends
\* with None has yielded every entry of the store, so none was passed over.
C28_DecodeFailureAborts ==
    LET T == IF coll = "Map" THEN [k |-> MapK, v |-> MapV]
             ELSE [k |-> KeyTy(MapEntry), v |-> ValueTy(MapEntry)]
        scan == RawScan(store)
        good == Decodable(store, scan, T.k, T.v, 1)
    IN  (coll \in {"Map", "EntryMap"} /\ op.name \in {"iter", "next"}) =>
            /\ Len(yielded) <= good
            /\ (op.name = "next" /\ ~iter.live) =>
                   ret = "panic" /\ Len(yielded) = good /\ good < Len(scan)
            /\ (op.name = "next" /\ iter.live) =>
                   IF iter.done
                   THEN ret = None /\ Len(yielded) = Len(scan)
                   ELSE /\ ret = Some(yielded[Len(yielded)])
                        /\ coll = "EntryMap" => ret[1].ok

\* The second of three entries of a Map does not decode: the first was
\* yielded and the next call panicked.
C28_Witness ==
    /\ coll = "Map"
    /\ op.name = "next"
    /\ ~iter.live
    /\ ret = "panic"
    /\ Len(yielded) = 1
    /\ Cardinality(DOMAIN store) = 3

(***************************************************************************)
(* C29.  A step that fails leaves the underlying store as it was.           *)
(***************************************************************************)
\* C29: when the action is not the stored count, so that the step fails
\* after it has written "n", step_flush returns the step's error and the
\* store is what it was before the call: "n" and "count" are unchanged.
C29_FailedStep ==
    (coll = "CounterSM" /\ op.name = "step_flush") =>
        /\ op.arg # Counted(pre) =>
               /\ ~ret.ok
               /\ ret = Err("Invalid count")
               /\ store = pre
        /\ ~ret.ok => store = pre

C29_Witness ==
    /\ coll = "CounterSM"
    /\ op = [name |-> "step_flush", arg |-> 100]
    /\ ret = Err("Invalid count")
    /\ store = EmptyStore

(***************************************************************************)
(* C30.  A step that succeeds is flushed, and the counter counts the        *)
(* successful calls.                                                        *)
(***************************************************************************)
\* C30: after any sequence of step_flush calls from an empty store, the
\* stored count is the number of calls that returned Ok, a call that
\* returned Ok returned that number and left its action under "n", and a
\* call that did not return Ok changed nothing.
C30_CountsOks ==
    coll = "CounterSM" =>
        /\ Counted(store) = oks
        /\ (op.name = "step_flush" /\ ret.ok) =>
               /\ ret.val = oks
               /\ store[KeyN] = <<op.arg>>
               /\ store[KeyCount] = <<oks>>
        /\ (op.name = "step_flush" /\ ~ret.ok) => store = pre

(***************************************************************************)
(* C31.  Without step_flush a step's writes are applied as they happen.     *)
(***************************************************************************)
\* C31: after a call of step on the store itself, "n" holds the action
\* whatever the call returned; when the action was not the stored count the
\* call failed and "count" is what it was before, absent if it was absent;
\* when the call returned Ok, "count" holds the result.
C31_ImmediateWrites ==
    (coll = "CounterSM::step" /\ op.name = "step") =>
        /\ StoreGet(store, KeyN) = Some(<<op.arg>>)
        /\ op.arg # Counted(pre) =>
               /\ ~ret.ok
               /\ ret = Err("Invalid count")
               /\ StoreGet(store, KeyCount) = StoreGet(pre, KeyCount)
        /\ ret.ok => StoreGet(store, KeyCount) = Some(<<ret.val>>)

C31_Witness ==
    /\ coll = "CounterSM::step"
    /\ op = [name |-> "step", arg |-> 100]
    /\ pre = EmptyStore
    /\ ret = Err("Invalid count")
    /\ StoreGet(store, KeyN) = Some(<<100>>)
    /\ KeyCount \notin DOMAIN store

(***************************************************************************)
(* C32.  A slot whose lock cannot be acquired gives the Poison error.       *)
(***************************************************************************)
\* The lock outcome recorded for call c is a failure.
LockFailed(c) == calls[c].locked # None /\ ~calls[c].locked[1].ok

\* C32: when the lock of the slot could not be acquired in the capture step
\* of a query, that query returned the error value Poison with the lock's
\* message to the closure; when it could not be acquired at the end of a
\* with_response call whose closure returned Ok, the call returned that error
\* value; in neither case is the outcome a panic.
C32_PoisonIsError ==
    coll = "with_response" =>
        \A c \in CallIds :
            LockFailed(c) =>
                LET poison == Err(Error("Poison", calls[c].locked[1].err)) IN
                /\ Running(c) => calls[c].query_ret = Some(poison)
                /\ calls[c].pc = "done" => calls[c].ret = Some(poison)
                /\ poison # Panic

C32_Witness ==
    /\ coll = "with_response"
    /\ calls[1].pc = "done"
    /\ calls[1].f[1].queries = 1
    /\ calls[1].got # None
    /\ LockFailed(1)
    /\ calls[1].ret =
           Some(Err(Error("Poison", "poisoned lock: another task failed inside")))

(***************************************************************************)
(* C33.  A query call takes nothing from the calls before it.               *)
(***************************************************************************)
\* C33: a query call that ends when its request ends has returned the
\* failure of its own request, or the Poison error of the lock it tried; a
\* call that ends later has the outcome (the value returned and the snapshot
\* given to the callback) that the steps from the status check on compute
\* from this call's own response, attach outcome and callback, whatever the
\* slot holds by then and whatever the calls before it returned; and a call
\* dropped while it awaits its response leaves the slot, the store and every
\* other part of the state as they were when it was issued.
C33_NoCarriedState ==
    [][coll = "Query" =>
        /\ (pc = "awaiting" /\ pc' = "done") =>
               \E sent \in SendOutcomes, locked \in LockOutcomes :
                   LET r == query_response(res_store, sent, locked) IN
                   /\ r.end # None
                   /\ res' = IF sent.ok THEN Some(sent.val) ELSE None
                   /\ res_store' = res_store
                   /\ ret' = r.end[1].ret
                   /\ ret' = IF sent.ok THEN Err(Error("Poison", locked.err)) ELSE sent
                   /\ given' = None
        /\ (pc = "awaiting" /\ pc' = "captured") =>
               /\ res' # None
               /\ res'[1] \in Responses
               /\ res_store' = Capture(res_store, res'[1])
        /\ (pc = "captured" /\ pc' = "done") =>
               \E attach_result \in AttachOutcomes :
                   LET end == query_status(res[1], attach_result, op.check, <<"issue">>) IN
                   /\ res' = res
                   /\ res_store' = res_store
                   /\ ret' = end.ret
                   /\ given' = end.given
        /\ (pc = "awaiting" /\ pc' = "idle") =>
               /\ res_store' = res_store
               /\ store' = store
               /\ ret' = Unit
               /\ res' = None
               /\ given' = None
               /\ steps' = <<>>]_pc

\* A call whose request failed returns that failure although the slot holds
\* the accepted response of an earlier call.
C33_Witness ==
    /\ coll = "Query"
    /\ pc = "done"
    /\ res = None
    /\ op.encoded.ok
    /\ ret = Err(Error("TendermintRPC", "connection refused"))
    /\ res_store # None
    /\ res_store[1] # None
    /\ res_store[1][1].code = 0
    /\ res_store[1][1].value = Payload(StorePut(EmptyStore, <<>>, <<0, 7>>))

(***************************************************************************)
(* C34.  What with_response returns: the closure's result with the latest   *)
(* captured response, the no-query error, or the closure's error.           *)
(***************************************************************************)
\* C34: a with_response call that has returned Ok((r, resp)) had a closure
\* that returned Ok(r) and issued at least one query through its client, and
\* resp is the response captured latest by those queries; a call whose
\* closure returned Ok without issuing a query has returned the error
\* Query("No query preformed in closure") (the slot's lock being acquired);
\* a call whose closure returned an error has returned that error as it is.
C34_ResponseOrError ==
    coll = "with_response" =>
        \A c \in CallIds :
            calls[c].pc = "done" =>
                LET f == calls[c].f[1]
                    r == calls[c].ret[1]
                IN  /\ r.ok => /\ f.result.ok
                               /\ f.queries >= 1
                               /\ calls[c].got # None
                               /\ r.val = <<f.result.val, calls[c].got[1]>>
                    /\ (f.result.ok /\ f.queries = 0 /\ ~LockFailed(c)) =>
                           r = Err(Error("Query", "No query preformed in closure"))
                    /\ ~f.result.ok => r = f.result

\* A closure that made no query and returned Ok, beside a closure that made
\* two queries and returned Ok.
C34_Witness ==
    /\ coll = "with_response"
    /\ calls[1].pc = "done"
    /\ calls[1].f[1] = [queries |-> 0, result |-> Ok("first")]
    /\ calls[1].ret = Some(Err(Error("Query", "No query preformed in closure")))
    /\ calls[2].pc = "done"
    /\ calls[2].f[1] = [queries |-> 2, result |-> Ok("second")]
    /\ calls[2].ret =
           Some(Ok(<<"second", [code |-> 0, log |-> "", value |-> Payload(EmptyStore)]>>))

(***************************************************************************)
(* C35.  get and delete look up the bytes insert writes.                    *)
(***************************************************************************)
\* C35: for every key whose encoding fits the 256-byte array, the first
\* encoding_length bytes of the array are the key's encoding, neither padded
\* nor cut (for the key of encoded length 0 and the key of encoded length
\* 256 too); so a get of such a key has returned the value stored under the
\* key's encoding, or None when nothing is stored under it, and a delete of
\* such a key has removed the entry under the key's encoding and no other.
C35_SameKeyBytes ==
    coll = "Map" =>
        /\ \A k \in {x \in MapKeys : Fits(x)} :
               LET r == encode_key_array(MapK, k) IN
               /\ r.ok
               /\ Len(r.val.bytes) = KeyBufLen
               /\ SubSeq(r.val.bytes, 1, r.val.len) = KeyBytes(k)
        /\ (op.name = "get" /\ Fits(op.arg)) =>
               ret = IF KeyBytes(op.arg) \in DOMAIN store
                     THEN Ok(Some(Decode(MapV, store[KeyBytes(op.arg)]).val))
                     ELSE Ok(None)
        /\ (op.name = "delete" /\ Fits(op.arg)) =>
               /\ KeyBytes(op.arg) \notin DOMAIN store
               /\ store = StoreDelete(pre, KeyBytes(op.arg))

\* A get of the key of encoded length 0 finds its value while the key of
\* encoded length 256 is stored too.
C35_Witness ==
    /\ coll = "Map"
    /\ op.name = "get"
    /\ op.arg = <<>>
    /\ KeyBytes(op.arg) = <<>>
    /\ ret = Ok(Some(256))
    /\ \E b \in DOMAIN store : Len(b) = KeyBufLen

(***************************************************************************)
(* C36.  insert and delete change the entry of their key only; get, iter,   *)
(* iter_from and next change nothing.                                       *)
(***************************************************************************)
\* C36: after insert(k, v) or delete(k), get(k') returns for every key k'
\* other than k what it returned before the operation, and no entry under
\* other bytes than the encoding of k has changed; after get, iter, iter_from
\* or next of an iterator the store is the store from before.
C36_OnlyOwnEntry ==
    coll = "Map" =>
        /\ op.name \in {"insert", "delete"} =>
               LET k == IF op.name = "insert" THEN op.arg[1] ELSE op.arg IN
               /\ \A other \in MapKeys \ {k} :
                      Map_get(store, MapK, MapV, other) = Map_get(pre, MapK, MapV, other)
               /\ \A b \in (DOMAIN store \cup DOMAIN pre) \ {KeyBytes(k)} :
                      /\ b \in DOMAIN store
                      /\ b \in DOMAIN pre
                      /\ store[b] = pre[b]
        /\ op.name \in {"get", "iter", "iter_from", "next"} => store = pre

\* A delete of the key of encoded length 0, whose bytes every other key
\* starts with, leaves two other entries as they were.
C36_Witness ==
    /\ coll = "Map"
    /\ op.name = "delete"
    /\ op.arg = <<>>
    /\ <<>> \in DOMAIN pre
    /\ Cardinality(DOMAIN store) = 2
    /\ \A other \in MapKeys \ {<<>>} :
           Map_get(store, MapK, MapV, other) = Map_get(pre, MapK, MapV, other)

(***************************************************************************)
(* C37.  IBC routing knows the transfer module and nothing else.            *)
(***************************************************************************)
\* C37: lookup_module has returned Some(the transfer module id) when the
\* port is the transfer port and None for every other port, and the module
\* id it returned has a route; get_route and get_route_mut have returned the
\* transfer module when the module id is the transfer id and None for every
\* other id, and each returns what the other returns for the same id;
\* lookup_module_by_port has returned Ok(the transfer module id) for the
\* transfer port and the unknown_port error naming the port for every other.
C37_TransferOnly ==
    coll = "IbcRouter" =>
        /\ op.name = "lookup_module" =>
               /\ ret = IF op.arg = "transfer" THEN Some("transfer") ELSE None
               /\ ret # None =>
                      /\ IbcRouter_get_route(ret[1]) = Some("transfer")
                      /\ IbcRouter_get_route_mut(ret[1]) = Some("transfer")
               /\ (ret # None) = Ibc_lookup_module_by_port(op.arg).ok
        /\ op.name = "get_route" =>
               /\ ret = IF op.arg = "transfer" THEN Some("transfer") ELSE None
               /\ ret = IbcRouter_get_route_mut(op.arg)
        /\ op.name = "get_route_mut" =>
               /\ ret = IF op.arg = "transfer" THEN Some("transfer") ELSE None
               /\ ret = IbcRouter_get_route(op.arg)
        /\ op.name = "lookup_module_by_port" =>
               /\ ret = IF op.arg = "transfer" THEN Ok("transfer")
                        ELSE Err(Error("unknown_port", op.arg))
               /\ ret.ok = (IbcRouter_lookup_module(op.arg) # None)
               /\ ret.ok => Some(ret.val) = IbcRouter_lookup_module(op.arg)

\* The transfer port was looked up and its module id is routable.
C37_Witness ==
    /\ coll = "IbcRouter"
    /\ op = [name |-> "lookup_module", arg |-> "transfer"]
    /\ ret = Some("transfer")
    /\ IbcRouter_get_route(ret[1]) # None

(***************************************************************************)
(* C38.  QueryPlugin::query by variant: a query reads, a call is applied    *)
(* as QueryPlugin::call applies it, a raw key is read; the store is never   *)
(* written.                                                                 *)
(***************************************************************************)
\* C38: after query(Query::Query(q)) the plugin is as before and the inner
\* state's answer has been returned; after query(Query::Call(c)) the plugin
\* and the value returned are those QueryPlugin::call(c) gives from the same
\* plugin; after query(Query::RawKey(k)) the plugin is as before and Ok(())
\* has been returned whether the store holds k, with or without the
\* plugin's prefix, or not; after each of the three the store is the store
\* from before.
C38_Dispatch ==
    (coll = "QueryPlugin" /\ op.name = "query") =>
        /\ store = pre
        /\ op.arg.variant = "Query" =>
               /\ plugin = op.before
               /\ ret = Baz_query(op.before.inner, op.arg.query)
        /\ op.arg.variant = "Call" =>
               LET r == QueryPlugin_call(op.before, op.arg.call, op.overflow) IN
               /\ plugin = r.plugin
               /\ ret = r.ret
        /\ op.arg.variant = "RawKey" =>
               /\ plugin = op.before
               /\ ret = Ok(Unit)

\* inc_beep(15) came as a query after inc_beep(10), as in the test, to a
\* plugin attached under the prefix 1: beep is 25.
C38_Witness ==
    /\ coll = "QueryPlugin"
    /\ op.name = "query"
    /\ op.arg = Query_Call([method |-> "inc_beep", n |-> U32(15)])
    /\ op.before.inner.beep = U32(10)
    /\ plugin.inner.beep = U32(25)
    /\ ret = Ok(Unit)
    /\ plugin.prefix = <<1>>
    /\ store = pre
    /\ store # EmptyStore

====
